---- MODULE Spec2Model ----
(***************************************************************************)
(* Verification model of the parsing-fidelity core of EUFactForce          *)
(* (src/ingestion/parsing): the multi-dimensional scorer, the leaderboard  *)
(* builders, the routing recommender and the regression gate.              *)
(*                                                                         *)
(* Numbers.  Every score of the program is a float rounded to 4 decimals.  *)
(* The model keeps them as integers in units of 1/10000 (10000 = 1.0), so  *)
(* 0.35 is 3500 and the threshold 0.80 is 8000.  Products of two such      *)
(* numbers are in units of 1/10^8 until they are rounded back.             *)
(* An optional value (Python None) is the empty tuple, a present value v   *)
(* is the 1-tuple <<v>>.                                                   *)
(***************************************************************************)
EXTENDS Integers, Sequences, FiniteSets, TLC

VARIABLES
    pc,          \* which operation has run: "start", "done" or "raised"
    fidIn,       \* compute_fidelity_composite: its four arguments
    fidOut,      \* compute_fidelity_composite: its return value
    refBody,     \* _prepare_body(reference), cut at sentence ends
    extBody,     \* _prepare_body(extracted), cut at sentence ends
    ratio,       \* SequenceMatcher(None, a, b).ratio() for sentences a # b
    simOut,      \* score_reference_text: what it computed
    presIn,      \* _score_content_presence: what it reads of (full_text, gt)
    presOut,     \* _score_content_presence: its result, or the exception
    results,     \* quality_scoring.main: the list of per-pair records
    qualityCsv,  \* output/quality_scores.csv
    lbGlobal,    \* output/fidelity_leaderboard.csv
    lbByType,    \* output/fidelity_leaderboard_by_doc_type.csv
    blGlobal,    \* command_baseline: args.output_csv
    blByType,    \* command_baseline: args.output_doc_type_csv
    routingJson, \* command_routing: args.output_json
    baselineCsv, \* command_gates: args.baseline
    candidateCsv,\* command_gates: args.candidate
    gatesJson,   \* command_gates: args.output_json
    stripIn,     \* strip_references_section: its argument
    stripOut,    \* strip_references_section: its return value
    aggIn,       \* a weighted aggregate: which one, and its arguments
    aggOut,      \* a weighted aggregate: its return value
    gtDocs,      \* quality_scoring.main: gt_docs, in the order of the JSON file
    parserConfigs, \* quality_scoring.main: parser_configs
    textFiles,   \* EXTRACTED_TEXT_DIR: per (document, config), None or the text
    mainPos,     \* quality_scoring.main: the pairs the loop has been through
    storage,     \* default_storage: the names of the objects it holds
    fileOverwrite, \* default_storage: whether save() replaces an existing name
    sourceFiles, \* table of SourceFile, by primary key
    fileMetadata, \* table of FileMetadata, by source_file_id
    documentChunks, \* table of DocumentChunk
    savedObject, \* per SourceFile, the call that made it and the name Storage.save returned
    nextPk,      \* the primary key the next SourceFile row gets
    ingestOut,   \* the last ingestion call: what it returned or raised
    before,      \* the outputs of the fidelity commands before the CSV rows were reordered
    taxIn,       \* _taxonomy_for_pair: what it reads of its three arguments
    taxOut,      \* _taxonomy_for_pair: the TaxonomyCounts it returns
    matchIn,     \* best_match_ratio: needle and haystack_sentences
    matchOut     \* best_match_ratio: its return value

fidVars == <<fidIn, fidOut>>
simVars == <<refBody, extBody, ratio, simOut>>
presVars == <<presIn, presOut>>
lbVars == <<results, qualityCsv, lbGlobal, lbByType, blGlobal, blByType>>
routeVars == <<routingJson>>
gateVars == <<baselineCsv, candidateCsv, gatesJson>>
stripVars == <<stripIn, stripOut>>
aggVars == <<aggIn, aggOut>>
mainVars == <<gtDocs, parserConfigs, textFiles, mainPos>>
ingestVars == <<storage, fileOverwrite, sourceFiles, fileMetadata, documentChunks,
                savedObject, nextPk, ingestOut>>
lateVars == <<taxIn, taxOut, matchIn, matchOut>>
restVars == <<aggVars, mainVars, ingestVars, before, lateVars>>
vars == <<pc, fidVars, simVars, presVars, lbVars, routeVars, gateVars, stripVars, restVars>>

-----------------------------------------------------------------------------
(* Optional values and rounding *)

None == << >>
Some(v) == <<v>>
IsNone(x) == x = << >>
Val(x) == x[1]

\* One unit of the fixed-point representation: 1.0
Unit == 10 ^ 4

Abs(x) == IF x < 0 THEN 0 - x ELSE x

\* Python round(n/d, 4) read on the fixed-point scale: the integer nearest to
\* n/d (d > 0), a tie going to the even neighbour.
RoundFloor(n, d) == n \div d
RoundHalfEven(n, d) ==
    LET q == n \div d
        r == n % d
    IN  IF 2 * r < d THEN q
        ELSE IF 2 * r > d THEN q + 1
        ELSE IF q % 2 = 0 THEN q ELSE q + 1

-----------------------------------------------------------------------------
(* scoring/utils.py and scoring/similarity.py: sentence matching           *)
(*                                                                         *)
(* A body is the text _prepare_body returns, held as the list of pieces    *)
(* re.split cuts it into at sentence ends.  A piece is named by a number;  *)
(* two pieces are the same string exactly when they have the same number.  *)
(* PieceLen gives the piece's length in characters.  difflib's             *)
(* SequenceMatcher is a library: its ratio for two different sentences is  *)
(* an input of the model (the variable ratio), limited only by what        *)
(* difflib guarantees, ratio(a,b) = 2*M/(len a + len b) with               *)
(* M <= min(len a, len b), which is below 1.0 for different strings.       *)
(***************************************************************************)

MIN_SENTENCE_CHARS == 30
LENGTH_MISMATCH_RATIO == 5000
EARLY_EXIT_RATIO == 9500
SENTENCE_MATCH_THRESHOLD == 8000
MIN_MATCHED_SENTENCES == 3

\* Piece 0 is a fragment too short to be a sentence; 1 and 2 are sentences of
\* similar length; 3 is a much longer sentence.  Sentences 4 and 5 (41 and 61
\* characters) are read by the error taxonomy and by best_match_ratio alone.
Pieces == 0 .. 3
PieceLen(s) == CASE s = 0 -> 10 [] s = 1 -> 40 [] s = 2 -> 44 [] s = 4 -> 41 [] s = 5 -> 61 [] OTHER -> 100
Sentences == {s \in Pieces : PieceLen(s) >= MIN_SENTENCE_CHARS}

SeqSum(f, n) ==
    LET RECURSIVE Go(_)
        Go(i) == IF i = 0 THEN 0 ELSE f[i] + Go(i - 1)
    IN  Go(n)

\* split_sentences: the pieces of at least MIN_SENTENCE_CHARS characters.
split_sentences(body) ==
    SelectSeq(body, LAMBDA s : PieceLen(s) >= MIN_SENTENCE_CHARS)

SetOf(seq) == {seq[i] : i \in 1 .. Len(seq)}

\* abs(len(needle) - len(hs)) > len(needle) * LENGTH_MISMATCH_RATIO
LengthMismatch(needle, hs) ==
    Abs(PieceLen(needle) - PieceLen(hs)) * Unit > PieceLen(needle) * LENGTH_MISMATCH_RATIO

\* best_match_ratio: 1.0 on set membership, else the scan in list order with
\* the early exit.
\* Variant for comparison: the scan without the length test of line 140.
RECURSIVE BestScanNoSkip(_, _, _, _)
BestScanNoSkip(needle, hay, i, best) ==
    IF i > Len(hay) THEN best
    ELSE LET r == ratio[<<needle, hay[i]>>]
             nb == IF r > best THEN r ELSE best
         IN  IF nb >= EARLY_EXIT_RATIO THEN nb
             ELSE BestScanNoSkip(needle, hay, i + 1, nb)

RECURSIVE BestScan(_, _, _, _)
BestScan(needle, hay, i, best) ==
    IF i > Len(hay) THEN best
    ELSE IF LengthMismatch(needle, hay[i]) THEN BestScan(needle, hay, i + 1, best)
    ELSE LET r == ratio[<<needle, hay[i]>>]
             nb == IF r > best THEN r ELSE best
         IN  IF nb >= EARLY_EXIT_RATIO THEN nb
             ELSE BestScan(needle, hay, i + 1, nb)

best_match_ratio(needle, haystack_sentences, haystack_set) ==
    IF needle \in haystack_set THEN Unit
    ELSE BestScan(needle, haystack_sentences, 1, 0)

\* Variant for comparison: every needle counts, matched or not.
WeightedMatchesNoThreshold(needles, hay, threshold) ==
    LET best == [i \in 1 .. Len(needles) |->
                    best_match_ratio(needles[i], hay, SetOf(hay))]
    IN  SeqSum(best, Len(needles))

\* The sum of the best ratios that reach the threshold.
WeightedMatches(needles, hay, threshold) ==
    LET best == [i \in 1 .. Len(needles) |->
                    best_match_ratio(needles[i], hay, SetOf(hay))]
        kept == [i \in 1 .. Len(needles) |->
                    IF best[i] >= threshold THEN best[i] ELSE 0]
    IN  SeqSum(kept, Len(needles))

compute_content_recall(extracted, reference) ==
    LET ref_sentences == split_sentences(reference)
        ext_sentences == split_sentences(extracted)
    IN  IF ref_sentences = << >> THEN Unit
        ELSE IF ext_sentences = << >> THEN 0
        ELSE RoundHalfEven(
               WeightedMatches(ref_sentences, ext_sentences, SENTENCE_MATCH_THRESHOLD),
               Len(ref_sentences))

\* Variant for comparison: precision divided by the reference sentence count.
compute_content_precision_per_ref(extracted, reference) ==
    LET ref_sentences == split_sentences(reference)
        ext_sentences == split_sentences(extracted)
    IN  IF ext_sentences = << >> THEN 0
        ELSE IF ref_sentences = << >> THEN 0
        ELSE RoundHalfEven(
               WeightedMatches(ext_sentences, ref_sentences, SENTENCE_MATCH_THRESHOLD),
               Len(ref_sentences))

compute_content_precision(extracted, reference) ==
    LET ref_sentences == split_sentences(reference)
        ext_sentences == split_sentences(extracted)
    IN  IF ext_sentences = << >> THEN 0
        ELSE IF ref_sentences = << >> THEN 0
        ELSE RoundHalfEven(
               WeightedMatches(ext_sentences, ref_sentences, SENTENCE_MATCH_THRESHOLD),
               Len(ext_sentences))

\* compute_order_score, lines 139-159: the extracted position paired with one
\* reference sentence.  An exact copy pairs with its first occurrence; else
\* the scan keeps the first candidate of the highest ratio (no early exit).
FirstIndexOf(seq, s) ==
    CHOOSE i \in 1 .. Len(seq) : seq[i] = s /\ \A j \in 1 .. (i - 1) : seq[j] # s

RECURSIVE OrderScan(_, _, _, _, _)
OrderScan(ref_s, ext, i, best_ratio, best_pos) ==
    IF i > Len(ext) THEN <<best_ratio, best_pos>>
    ELSE IF LengthMismatch(ref_s, ext[i])
         THEN OrderScan(ref_s, ext, i + 1, best_ratio, best_pos)
    ELSE IF ratio[<<ref_s, ext[i]>>] > best_ratio
         THEN OrderScan(ref_s, ext, i + 1, ratio[<<ref_s, ext[i]>>], i)
    ELSE OrderScan(ref_s, ext, i + 1, best_ratio, best_pos)

\* <<best_ratio, best_pos>>, positions counted from 1 and 0 standing for
\* Python's -1.
BestPosition(ref_s, ext) ==
    IF ref_s \in SetOf(ext) THEN <<Unit, FirstIndexOf(ext, ref_s)>>
    ELSE OrderScan(ref_s, ext, 1, 0, 0)

RECURSIVE MatchedFrom(_, _, _, _)
MatchedFrom(ref, ext, i, threshold) ==
    IF i > Len(ref) THEN << >>
    ELSE LET b == BestPosition(ref[i], ext)
         IN  IF b[1] >= threshold /\ b[2] >= 1
             THEN <<(<<i, b[2]>>)>> \o MatchedFrom(ref, ext, i + 1, threshold)
             ELSE MatchedFrom(ref, ext, i + 1, threshold)

matched_positions(extracted, reference) ==
    MatchedFrom(split_sentences(reference), split_sentences(extracted), 1,
                SENTENCE_MATCH_THRESHOLD)

\* Lines 165-171: pairs i < j of matched sentences, and those in order.
TotalPairs(m) == Cardinality({p \in (1 .. Len(m)) \X (1 .. Len(m)) : p[1] < p[2]})
\* Variant for comparison: equal positions count as in order.
ConcordantLoose(m) ==
    Cardinality({p \in (1 .. Len(m)) \X (1 .. Len(m)) :
                    p[1] < p[2] /\ m[p[1]][2] <= m[p[2]][2]})
Concordant(m) ==
    Cardinality({p \in (1 .. Len(m)) \X (1 .. Len(m)) :
                    p[1] < p[2] /\ m[p[1]][2] < m[p[2]][2]})

compute_order_score(extracted, reference) ==
    LET ref_sentences == split_sentences(reference)
        ext_sentences == split_sentences(extracted)
        m == matched_positions(extracted, reference)
    IN  IF Len(ref_sentences) < MIN_MATCHED_SENTENCES
           \/ Len(ext_sentences) < MIN_MATCHED_SENTENCES
        THEN None
        ELSE IF Len(m) < MIN_MATCHED_SENTENCES THEN None
        ELSE \* round(concordant_frac * coverage, 4)
             Some(RoundHalfEven(Concordant(m) * Len(m) * Unit,
                                TotalPairs(m) * Len(ref_sentences)))

\* compute_text_similarity: SequenceMatcher over the two whole bodies, 1.0 for
\* identical bodies and below 1.0 otherwise (one value stands for those).
BodySimilarities(extracted, reference) ==
    IF extracted = reference THEN {Unit} ELSE {6000}

-----------------------------------------------------------------------------
(* scoring/similarity.py: composite fidelity *)

FIDELITY_WEIGHT_SIMILARITY == 3500
FIDELITY_WEIGHT_RECALL == 2500
FIDELITY_WEIGHT_PRECISION == 2500
FIDELITY_WEIGHT_ORDER == 1500

\* The unrounded weighted sum, in units of 1/10^8.
FidelityWeightedSum(text_similarity, content_recall, content_precision, order_score) ==
    LET order == IF IsNone(order_score) THEN 0 ELSE Val(order_score)
    IN  FIDELITY_WEIGHT_SIMILARITY * text_similarity
        + FIDELITY_WEIGHT_RECALL * content_recall
        + FIDELITY_WEIGHT_PRECISION * content_precision
        + FIDELITY_WEIGHT_ORDER * order

\* Variant for comparison: the sum cut to 4 decimals instead of rounded.
compute_fidelity_composite_trunc(text_similarity, content_recall, content_precision, order_score) ==
    RoundFloor(FidelityWeightedSum(text_similarity, content_recall,
                                   content_precision, order_score), Unit)

compute_fidelity_composite(text_similarity, content_recall, content_precision, order_score) ==
    RoundHalfEven(FidelityWeightedSum(text_similarity, content_recall,
                                      content_precision, order_score), Unit)

\* Sub-scores the composite is applied to: the ends of [0,1], the smallest
\* steps above 0 and below 1, and interior points.
MaxScoreStep == 3
ScoreGrid == (0 .. MaxScoreStep) \cup {2500, 5000, Unit - 1, Unit}

IdleComposite ==
    /\ fidIn = << >>
    /\ fidOut = << >>

IdleSimilarity ==
    /\ refBody = << >>
    /\ extBody = << >>
    /\ ratio = << >>
    /\ simOut = << >>

IdlePresence ==
    /\ presIn = << >>
    /\ presOut = << >>

IdleLeaderboard ==
    /\ results = << >>
    /\ qualityCsv = None
    /\ lbGlobal = None
    /\ lbByType = None
    /\ blGlobal = None
    /\ blByType = None

IdleRouting ==
    /\ routingJson = None

IdleGates ==
    /\ baselineCsv = None
    /\ candidateCsv = None
    /\ gatesJson = None

IdleStrip ==
    /\ stripIn = << >>
    /\ stripOut = << >>

IdleAggregates ==
    /\ aggIn = << >>
    /\ aggOut = << >>

IdleMain ==
    /\ gtDocs = << >>
    /\ parserConfigs = << >>
    /\ textFiles = << >>
    /\ mainPos = 0

IdleIngestion ==
    /\ storage = {}
    /\ fileOverwrite = FALSE
    /\ sourceFiles = << >>
    /\ fileMetadata = << >>
    /\ documentChunks = {}
    /\ savedObject = << >>
    /\ nextPk = 1
    /\ ingestOut = [op |-> "none"]

IdleReorder ==
    /\ before = None

IdleLate ==
    /\ taxIn = << >>
    /\ taxOut = << >>
    /\ matchIn = << >>
    /\ matchOut = << >>

IdleRest ==
    /\ IdleAggregates
    /\ IdleMain
    /\ IdleIngestion
    /\ IdleReorder
    /\ IdleLate

InitComposite ==
    /\ pc = "start"
    /\ IdleRest
    /\ IdleSimilarity
    /\ IdlePresence
    /\ IdleLeaderboard
    /\ IdleRouting
    /\ IdleGates
    /\ IdleStrip
    /\ fidIn \in [s : ScoreGrid, r : ScoreGrid, p : ScoreGrid,
                  o : {None} \cup {Some(v) : v \in ScoreGrid}]
    /\ fidOut = None

ComputeFidelityComposite ==
    /\ pc = "start"
    /\ fidOut' = Some(compute_fidelity_composite(fidIn.s, fidIn.r, fidIn.p, fidIn.o))
    /\ pc' = "done"
    /\ UNCHANGED <<restVars, fidIn, simVars, presVars, lbVars, routeVars, gateVars, stripVars>>

NextComposite == ComputeFidelityComposite

SpecComposite == InitComposite /\ [][NextComposite]_vars

\* C2 (as stated): the composite equals 0.35*similarity + 0.25*recall +
\* 0.25*precision + 0.15*order exactly, the order term being 0 when order is
\* undefined.
C2_ExactWeightedSum ==
    pc = "done" =>
        Val(fidOut) * Unit =
            3500 * fidIn.s + 2500 * fidIn.r + 2500 * fidIn.p
              + (IF IsNone(fidIn.o) THEN 0 ELSE 1500 * Val(fidIn.o))

\* C2 (amended): the composite is that weighted sum rounded to 4 decimals (it
\* differs from the sum by at most 0.00005), the order term being 0 when order
\* is undefined; the weights sum to 1.0, composite(1,1,1,1) = 1.0,
\* composite(0,0,0,undefined) = 0.0 and the result lies in [0,1].
C2_CompositeRounded ==
    /\ FIDELITY_WEIGHT_SIMILARITY + FIDELITY_WEIGHT_RECALL
         + FIDELITY_WEIGHT_PRECISION + FIDELITY_WEIGHT_ORDER = Unit
    /\ pc = "done" =>
        LET orderTerm == IF IsNone(fidIn.o) THEN 0 ELSE 1500 * Val(fidIn.o)
            exact == 3500 * fidIn.s + 2500 * fidIn.r + 2500 * fidIn.p + orderTerm
        IN  /\ 2 * Abs(Val(fidOut) * Unit - exact) <= Unit
            /\ Val(fidOut) \in 0 .. Unit
            /\ (fidIn = [s |-> Unit, r |-> Unit, p |-> Unit, o |-> Some(Unit)])
                  => Val(fidOut) = Unit
            /\ (fidIn = [s |-> 0, r |-> 0, p |-> 0, o |-> None])
                  => Val(fidOut) = 0

\* A composite was computed with order undefined and a weighted sum that has
\* more than 4 decimals.
C2_Witness ==
    /\ pc = "done"
    /\ IsNone(fidIn.o)
    /\ FidelityWeightedSum(fidIn.s, fidIn.r, fidIn.p, fidIn.o) % Unit # 0
    /\ Val(fidOut) > 0

-----------------------------------------------------------------------------
(* scoring/content.py and quality_scoring.py: content presence             *)
(*                                                                         *)
(* A (haystack, needle) pair is held as what contains_fuzzy reads of it:   *)
(* exact, whether the lower-cased needle is a substring of the lower-cased *)
(* haystack, and windows, the SequenceMatcher ratios of the chunks at      *)
(* offsets 0, step, 2*step, ... in scan order (empty when the haystack is  *)
(* shorter than the needle).                                               *)
(***************************************************************************)

FOUND == "found"
NOT_FOUND == "not_found"
NOT_APPLICABLE == "n/a"

CONTENT_FUZZY_THRESHOLD == 7000

RECURSIVE WindowScan(_, _, _)
WindowScan(windows, i, best) ==
    IF i > Len(windows) THEN best
    ELSE LET nb == IF windows[i] > best THEN windows[i] ELSE best
         IN  IF nb >= EARLY_EXIT_RATIO THEN nb ELSE WindowScan(windows, i + 1, nb)

\* contains_fuzzy: <<found, round(best, 3)>>
contains_fuzzy(obs, threshold) ==
    IF obs.exact THEN <<TRUE, Unit>>
    ELSE LET best == WindowScan(obs.windows, 1, 0)
         IN  <<best >= threshold, RoundHalfEven(best, 10) * 10>>

FuzzyStatus(obs) ==
    LET r == contains_fuzzy(obs, CONTENT_FUZZY_THRESHOLD)
    IN  <<IF r[1] THEN FOUND ELSE NOT_FOUND, r[2]>>

score_title(obs) == FuzzyStatus(obs)

RECURSIVE AuthorsScan(_, _, _, _)
AuthorsScan(authors, i, best_ratio, any_found) ==
    IF i > Len(authors) THEN <<IF any_found THEN FOUND ELSE NOT_FOUND, best_ratio>>
    ELSE LET r == contains_fuzzy(authors[i], CONTENT_FUZZY_THRESHOLD)
         IN  AuthorsScan(authors, i + 1,
                         IF r[2] > best_ratio THEN r[2] ELSE best_ratio,
                         any_found \/ r[1])

score_authors(authors) == AuthorsScan(authors, 1, 0, FALSE)

\* expected_doi is None ("absent"), or a string that is or is not in the text.
score_doi(doi) ==
    IF doi = "absent" THEN NOT_APPLICABLE
    ELSE IF doi = "in_text" THEN FOUND ELSE NOT_FOUND

score_abstract(abstract) ==
    IF IsNone(abstract) THEN <<NOT_APPLICABLE, 0>> ELSE FuzzyStatus(Val(abstract))

\* The regular expressions \breferences\b and \bbibliography\b.
score_references(mentions_references) ==
    IF mentions_references THEN FOUND ELSE NOT_FOUND

score_key_passage(obs) == FuzzyStatus(obs)

\* A Python call with positional arguments only: TypeError unless the number
\* of arguments is the number of parameters.
PyCall(nargs, nparams, value) ==
    IF nargs # nparams THEN [raised |-> "TypeError"]
    ELSE [raised |-> "", value |-> value]

\* def score_references(full_text), and its call
\* score_references(full_text, gt.get("has_references")).
ScoreReferencesParams == 1
ScoreReferencesCallArgs == 2

CountOf(statuses, keep(_)) == Cardinality({i \in 1 .. Len(statuses) : keep(statuses[i])})

\* quality_scoring.py lines 122-143
PresenceRecord(title, authors, doi_found, abstract, references_found, key_passage) ==
    LET presence_results == <<title[1], authors[1], doi_found,
                              abstract[1], references_found, key_passage[1]>>
        quality_score ==
            CountOf(presence_results, LAMBDA v : v # NOT_APPLICABLE /\ v = FOUND)
        quality_score_max == CountOf(presence_results, LAMBDA v : v # NOT_APPLICABLE)
    IN  [ raised |-> "",
          title_found |-> title[1], title_ratio |-> title[2],
          authors_found |-> authors[1], authors_ratio |-> authors[2],
          doi_found |-> doi_found,
          abstract_found |-> abstract[1], abstract_ratio |-> abstract[2],
          references_found |-> references_found,
          key_passage_found |-> key_passage[1], key_passage_ratio |-> key_passage[2],
          quality_score |-> quality_score,
          quality_score_max |-> quality_score_max,
          quality_score_pct |->
              IF quality_score_max # 0
              THEN Some(RoundHalfEven(quality_score * 1000, quality_score_max))
              ELSE None ]

\* _score_content_presence: the record it returns, or the exception that
\* leaves it.
score_content_presence(in) ==
    LET title == score_title(in.title)
        authors == score_authors(in.authors)
        doi_found == score_doi(in.doi)
        abstract == score_abstract(in.abstract)
        references == PyCall(ScoreReferencesCallArgs, ScoreReferencesParams,
                             score_references(in.references))
    IN  IF references.raised # "" THEN [raised |-> references.raised]
        ELSE PresenceRecord(title, authors, doi_found, abstract, references.value,
                            score_key_passage(in.key_passage))

MaxAuthors == 1
Observations ==
    { [exact |-> TRUE, windows |-> << >>],
      [exact |-> FALSE, windows |-> << >>],
      [exact |-> FALSE, windows |-> <<6900>>],
      [exact |-> FALSE, windows |-> <<7000, 6000>>],
      [exact |-> FALSE, windows |-> <<6000, 9600, 9900>>] }

InitPresence ==
    /\ pc = "start"
    /\ IdleRest
    /\ IdleComposite
    /\ IdleSimilarity
    /\ IdleLeaderboard
    /\ IdleRouting
    /\ IdleGates
    /\ IdleStrip
    /\ presIn \in [ title : Observations,
                    authors : UNION {[1 .. n -> Observations] : n \in 0 .. MaxAuthors},
                    doi : {"absent", "in_text", "not_in_text"},
                    abstract : {None} \cup {Some(o) : o \in Observations},
                    references : BOOLEAN,
                    key_passage : Observations ]
    /\ presOut = << >>

ScoreContentPresence ==
    /\ pc = "start"
    /\ presOut' = score_content_presence(presIn)
    /\ pc' = IF presOut'.raised # "" THEN "raised" ELSE "done"
    /\ UNCHANGED <<restVars, fidVars, simVars, lbVars, routeVars, gateVars, stripVars, presIn>>

NextPresence == ScoreContentPresence

SpecPresence == InitPresence /\ [][NextPresence]_vars

C1_Results ==
    <<presOut.title_found, presOut.authors_found, presOut.doi_found,
      presOut.abstract_found, presOut.references_found, presOut.key_passage_found>>

\* C1: every pair handed to _score_content_presence is scored, with
\* quality_score <= quality_score_max, quality_score the number of checks
\* that returned 'found' and quality_score_max the number of the six checks
\* that did not return 'n/a'; the DOI and abstract checks are 'n/a' exactly
\* when the ground truth has no DOI / no abstract first sentence.
C1_QualityScoreCounts ==
    pc # "start" =>
        /\ presOut.raised = ""
        /\ presOut.quality_score <= presOut.quality_score_max
        /\ presOut.quality_score =
              Cardinality({i \in 1 .. 6 : C1_Results[i] = "found"})
        /\ presOut.quality_score_max =
              Cardinality({i \in 1 .. 6 : C1_Results[i] # "n/a"})
        /\ presOut.doi_found = "n/a" <=> presIn.doi = "absent"
        /\ presOut.abstract_found = "n/a" <=> IsNone(presIn.abstract)

\* Nothing of the needle is in the text: no exact occurrence and no window.
C20_NoMatch(obs) == ~obs.exact /\ obs.windows = << >>

\* C20: scoring the content presence of a pair whose text file exists never
\* raises: each of the six checks returns 'found', 'not_found' or 'n/a', and a
\* title, abstract or key passage with no match in the text is 'not_found'
\* with ratio 0.0.
C20_NeverRaises ==
    pc # "start" =>
        /\ pc = "done"
        /\ presOut.raised = ""
        /\ \A i \in 1 .. 6 : C1_Results[i] \in {FOUND, NOT_FOUND, NOT_APPLICABLE}
        /\ C20_NoMatch(presIn.title) =>
              presOut.title_found = NOT_FOUND /\ presOut.title_ratio = 0
        /\ ~IsNone(presIn.abstract) /\ C20_NoMatch(Val(presIn.abstract)) =>
              presOut.abstract_found = NOT_FOUND /\ presOut.abstract_ratio = 0
        /\ C20_NoMatch(presIn.key_passage) =>
              presOut.key_passage_found = NOT_FOUND /\ presOut.key_passage_ratio = 0

-----------------------------------------------------------------------------
(* score_reference_text on one (extracted, reference) pair *)

\* A body is up to n sentences, or a short fragment (a heading, a page number)
\* alone or followed by one sentence.
MaxRefPieces == 4
MaxExtPieces == 3
SentenceSeqs(n) == UNION {[1 .. k -> Sentences] : k \in 0 .. n}
Bodies(n) == SentenceSeqs(n) \cup {<<0>> \o b : b \in SentenceSeqs(1)}

\* Ratios SequenceMatcher may report for two different sentences: below the
\* match threshold, at it, and at the early-exit ratio.
RatioVals == {7900, 8000, 9500}
SentencePairs == {p \in Sentences \X Sentences : p[1] # p[2]}
MinLen(p) == IF PieceLen(p[1]) < PieceLen(p[2]) THEN PieceLen(p[1]) ELSE PieceLen(p[2])
RatioBound(p) == (2 * MinLen(p) * Unit) \div (PieceLen(p[1]) + PieceLen(p[2]))
\* Pairs whose lengths allow a ratio near the threshold; every other pair of
\* different sentences is reported far below it (0).
ClosePairs == {p \in SentencePairs : RatioBound(p) >= SENTENCE_MATCH_THRESHOLD}
CloseRatios ==
    {g \in [ClosePairs -> RatioVals] : \A p \in ClosePairs : g[p] <= RatioBound(p)}
RatioOracles ==
    {[p \in SentencePairs |-> IF p \in ClosePairs THEN g[p] ELSE 0] : g \in CloseRatios}

InitSimilarity ==
    /\ pc = "start"
    /\ IdleRest
    /\ IdleComposite
    /\ IdlePresence
    /\ IdleLeaderboard
    /\ IdleRouting
    /\ IdleGates
    /\ IdleStrip
    /\ ratio \in RatioOracles
    /\ refBody \in Bodies(MaxRefPieces)
    /\ extBody \in Bodies(MaxExtPieces)
    /\ simOut = << >>

ScoreReferenceText ==
    /\ pc = "start"
    /\ \E text_similarity \in BodySimilarities(extBody, refBody) :
         LET content_recall == compute_content_recall(extBody, refBody)
             content_precision == compute_content_precision(extBody, refBody)
             order_score == compute_order_score(extBody, refBody)
         IN  simOut' = [ fidelity_composite |->
                             compute_fidelity_composite(text_similarity, content_recall,
                                                        content_precision, order_score),
                         text_similarity |-> text_similarity,
                         content_recall |-> content_recall,
                         content_precision |-> content_precision,
                         order_score |-> order_score,
                         matched_positions |-> matched_positions(extBody, refBody) ]
    /\ pc' = "done"
    /\ UNCHANGED <<restVars, fidVars, presVars, lbVars, routeVars, gateVars, stripVars,
                   refBody, extBody, ratio>>

NextSimilarity == ScoreReferenceText

SpecSimilarity == InitSimilarity /\ [][NextSimilarity]_vars

RefSentences == split_sentences(refBody)
ExtSentences == split_sentences(extBody)

\* Some reference sentence and some extracted sentence reach the threshold:
\* they are the same sentence, or SequenceMatcher reports 0.80 or more for
\* them (in either argument order).
SomePairReaches ==
    \E r \in SetOf(RefSentences), e \in SetOf(ExtSentences) :
        \/ r = e
        \/ ratio[<<r, e>>] >= 8000
        \/ ratio[<<e, r>>] >= 8000

RatioOf(a, b) == IF a = b THEN Unit ELSE ratio[<<a, b>>]

\* The reference sentences (by index) that some extracted sentence matches
\* at 0.80 or more.
MatchedRefIdx ==
    {i \in 1 .. Len(RefSentences) :
        \E j \in 1 .. Len(ExtSentences) :
            RatioOf(RefSentences[i], ExtSentences[j]) >= 8000}

\* Pairs of matched reference sentences, and those whose paired extracted
\* positions are in the same order.
C4_Pairs == {p \in MatchedRefIdx \X MatchedRefIdx : p[1] < p[2]}
C4_PosOf(i) ==
    LET m == simOut.matched_positions
    IN  m[CHOOSE k \in 1 .. Len(m) : m[k][1] = i][2]
C4_ConcordantPairs == {p \in C4_Pairs : C4_PosOf(p[1]) < C4_PosOf(p[2])}

C4_Undefined ==
    \/ Cardinality(MatchedRefIdx) < 3
    \/ Len(RefSentences) < 3
    \/ Len(ExtSentences) < 3

\* The matched_positions list pairs exactly the matched reference sentences,
\* each with an extracted sentence of the highest ratio.
C4_PairingIsBestMatch ==
    LET m == simOut.matched_positions
    IN  /\ {m[k][1] : k \in 1 .. Len(m)} = MatchedRefIdx
        /\ Len(m) = Cardinality(MatchedRefIdx)
        /\ \A k \in 1 .. Len(m) :
              /\ m[k][2] \in 1 .. Len(ExtSentences)
              /\ \A j \in 1 .. Len(ExtSentences) :
                    RatioOf(RefSentences[m[k][1]], ExtSentences[j])
                      <= RatioOf(RefSentences[m[k][1]], ExtSentences[m[k][2]])

\* C4 (as stated): the order score is undefined when fewer than 3 reference
\* sentences are matched or either side has fewer than 3 sentences, and is
\* otherwise exactly concordant/pairs * matched/total.
C4_AsStated ==
    pc = "done" =>
        /\ C4_Undefined => IsNone(simOut.order_score)
        /\ ~C4_Undefined =>
              /\ ~IsNone(simOut.order_score)
              /\ Val(simOut.order_score) * Cardinality(C4_Pairs) * Len(RefSentences)
                    = Cardinality(C4_ConcordantPairs) * Cardinality(MatchedRefIdx) * Unit

\* C4 (amended): the order score is undefined when fewer than 3 reference
\* sentences are matched or either side has fewer than 3 sentences; otherwise
\* it is concordant/pairs * matched/total rounded to 4 decimals, which for a
\* fixed matched count is non-decreasing in the number of concordant pairs and
\* lies in [0,1].
C4_OrderScore ==
    pc = "done" =>
        /\ C4_PairingIsBestMatch
        /\ C4_Undefined => IsNone(simOut.order_score)
        /\ ~C4_Undefined =>
              LET pairs == Cardinality(C4_Pairs)
                  conc == Cardinality(C4_ConcordantPairs)
                  m == Cardinality(MatchedRefIdx)
                  n == Len(RefSentences)
                  v == Val(simOut.order_score)
              IN  /\ ~IsNone(simOut.order_score)
                  /\ 2 * Abs(v * pairs * n - conc * m * Unit) <= pairs * n
                  /\ v \in 0 .. Unit
                  /\ \A c \in 0 .. pairs :
                        LET w == RoundHalfEven(c * m * Unit, pairs * n)
                        IN  (c <= conc => w <= v) /\ (c >= conc => w >= v)

\* An order score was computed for 3 matched sentences out of 4, some pairs
\* in order and some not.
C4_Witness ==
    /\ pc = "done"
    /\ ~IsNone(simOut.order_score)
    /\ Cardinality(MatchedRefIdx) < Len(RefSentences)
    /\ Cardinality(C4_ConcordantPairs) \in 1 .. (Cardinality(C4_Pairs) - 1)
    /\ Val(simOut.order_score) \in 1 .. (Unit - 1)

-----------------------------------------------------------------------------
(* fidelity/common.py: CSV cells, averages, grouping; list.sort            *)
(*                                                                         *)
(* A CSV cell is a string.  The model keeps what to_float reads of it:     *)
(* kind "num" with the number it spells, "empty" for "", "none" for the    *)
(* text None, and "junk" for text float() rejects.  The descriptive        *)
(* columns of a leaderboard row (parser_family and the two profiles, pure  *)
(* functions of parser_config) are left out.                               *)
(***************************************************************************)

NumCell(v) == [kind |-> "num", v |-> v]
EmptyCell == [kind |-> "empty", v |-> 0]
NoneCell == [kind |-> "none", v |-> 0]
JunkCell == [kind |-> "junk", v |-> 0]

\* csv.DictWriter writes None as the empty string and a float as its repr.
CsvCell(x) == IF IsNone(x) THEN EmptyCell ELSE NumCell(Val(x))

to_float(cell) == IF cell.kind = "num" THEN Some(cell.v) ELSE None

\* The defined values of a list of optional values.
Defined(values) == SelectSeq(values, LAMBDA x : ~IsNone(x))

Map(f(_), seq) == [i \in 1 .. Len(seq) |-> f(seq[i])]

OrZero(x) == IF IsNone(x) THEN 0 ELSE Val(x)

\* Variant for comparison: an undefined value counted as 0 in the mean.
RoundedAvgZeroFilled(values) ==
    IF Defined(values) = << >> THEN None
    ELSE Some(RoundHalfEven(SeqSum([i \in 1 .. Len(values) |-> OrZero(values[i])], Len(values)), Len(values)))

\* round_opt(avg(values)): the mean of the defined values rounded to 4
\* decimals, None when there is none.
RoundedAvg(values) ==
    LET valid == Defined(values)
    IN  IF valid = << >> THEN None
        ELSE Some(RoundHalfEven(
                    SeqSum([i \in 1 .. Len(valid) |-> Val(valid[i])], Len(valid)),
                    Len(valid)))

\* Python's order of the strings used as parser_config and doc_type.
NameOrder == <<"A", "B", "C", "X", "Y", "Z", "article", "report">>
NameRank(name) == CHOOSE i \in 1 .. Len(NameOrder) : NameOrder[i] = name

\* list.sort with a key is stable: an element ends up after every element
\* that is strictly before it, and after the earlier elements it ties with.
StableSort(seq, Before(_, _)) ==
    LET n == Len(seq)
        pos(i) == 1 + Cardinality({j \in 1 .. n :
                                     \/ Before(seq[j], seq[i])
                                     \/ j < i /\ ~Before(seq[i], seq[j])})
    IN  [p \in 1 .. n |-> seq[CHOOSE i \in 1 .. n : pos(i) = p]]

\* sorted(set(...)) of names
RECURSIVE SortedNames(_)
SortedNames(names) ==
    IF names = {} THEN << >>
    ELSE LET least == CHOOSE n \in names : \A o \in names : NameRank(n) <= NameRank(o)
         IN  <<least>> \o SortedNames(names \ {least})

\* The keys of group_rows' dict, in insertion order.
RECURSIVE FirstSeen(_, _)
FirstSeen(keys, seen) ==
    IF keys = << >> THEN << >>
    ELSE IF Head(keys) \in seen THEN FirstSeen(Tail(keys), seen)
    ELSE <<Head(keys)>> \o FirstSeen(Tail(keys), seen \cup {Head(keys)})


COMPOSITE_VERSION == "v1_0_35_25_25_15"

-----------------------------------------------------------------------------
(* quality_scoring.py: the CSV and the leaderboards main writes *)

\* main, lines 302-305: one CSV row per record.
CsvRow(r) ==
    [ parser_config |-> r.parser_config,
      doc_type |-> r.doc_type,
      fidelity_composite |-> CsvCell(r.fidelity_composite),
      text_similarity |-> CsvCell(r.text_similarity),
      content_recall |-> CsvCell(r.content_recall),
      content_precision |-> CsvCell(r.content_precision),
      order_score |-> CsvCell(r.order_score) ]

\* _avg(rows, field), rounded by _round_opt
FieldAvg(rows, field) == RoundedAvg(Map(LAMBDA r : r[field], rows))

\* Variant for comparison: a row for every group, zero-filled when empty.
LeaderboardRowAlways(key, rows) ==
    <<key @@
      [ num_documents |-> Len(rows),
        composite_version |-> COMPOSITE_VERSION,
        fidelity_composite_avg |-> Some(OrZero(FieldAvg(rows, "fidelity_composite"))),
        text_similarity_avg |-> Some(OrZero(FieldAvg(rows, "text_similarity"))),
        content_recall_avg |-> Some(OrZero(FieldAvg(rows, "content_recall"))),
        content_precision_avg |-> Some(OrZero(FieldAvg(rows, "content_precision"))),
        order_score_avg |-> Some(OrZero(FieldAvg(rows, "order_score"))) ]>>

\* Lines 426-440 and 453-473: no row for a group without a defined
\* composite, else the row of its means.
LeaderboardRow(key, rows) ==
    IF rows = << >> THEN << >>
    ELSE <<key @@
           [ num_documents |-> Len(rows),
             composite_version |-> COMPOSITE_VERSION,
             fidelity_composite_avg |-> FieldAvg(rows, "fidelity_composite"),
             text_similarity_avg |-> FieldAvg(rows, "text_similarity"),
             content_recall_avg |-> FieldAvg(rows, "content_recall"),
             content_precision_avg |-> FieldAvg(rows, "content_precision"),
             order_score_avg |-> FieldAvg(rows, "order_score") ]>>

RECURSIVE Concat(_)
Concat(seqs) == IF seqs = << >> THEN << >> ELSE Head(seqs) \o Concat(Tail(seqs))

\* _rows_for(results, config, "fidelity_composite")
rows_for(rs, config) ==
    SelectSeq(rs, LAMBDA r : r.parser_config = config /\ ~IsNone(r.fidelity_composite))

\* Variant for comparison: the lower mean composite first.
LowerComposite(x, y) == Val(x.fidelity_composite_avg) < Val(y.fidelity_composite_avg)

HigherComposite(x, y) == Val(x.fidelity_composite_avg) > Val(y.fidelity_composite_avg)

TypeThenComposite(x, y) ==
    \/ NameRank(x.doc_type) < NameRank(y.doc_type)
    \/ /\ x.doc_type = y.doc_type
       /\ 0 - Val(x.fidelity_composite_avg) < 0 - Val(y.fidelity_composite_avg)

\* _write_leaderboards: <<by_config_rows, by_type_rows>> after their sorts.
write_leaderboards(rs) ==
    LET parser_configs == SortedNames({rs[i].parser_config : i \in 1 .. Len(rs)})
        doc_types == SortedNames({rs[i].doc_type : i \in 1 .. Len(rs)})
        by_config_rows ==
            Concat(Map(LAMBDA config :
                         LeaderboardRow([parser_config |-> config], rows_for(rs, config)),
                       parser_configs))
        by_type_rows ==
            Concat(Map(LAMBDA doc_type :
                         Concat(Map(LAMBDA config :
                                      LeaderboardRow(
                                        [doc_type |-> doc_type, parser_config |-> config],
                                        SelectSeq(rs, LAMBDA r :
                                            /\ r.doc_type = doc_type
                                            /\ r.parser_config = config
                                            /\ ~IsNone(r.fidelity_composite))),
                                    parser_configs)),
                       doc_types))
    IN  <<StableSort(by_config_rows, HigherComposite),
          StableSort(by_type_rows, TypeThenComposite)>>

\* A file is rewritten only when there are rows to write (lines 443, 475).
WrittenIfAny(old, rows) == IF rows # << >> THEN Some(rows) ELSE old

-----------------------------------------------------------------------------
(* fidelity/baseline.py: command_baseline *)

\* Variant for comparison: the composite recomputed whenever its three
\* components are defined.
EnsureCompositeRecomputed(row) ==
    LET sim == to_float(row.text_similarity)
        rec == to_float(row.content_recall)
        prec == to_float(row.content_precision)
        order == to_float(row.order_score)
    IN  IF IsNone(sim) \/ IsNone(rec) \/ IsNone(prec)
        THEN (IF ~IsNone(to_float(row.fidelity_composite)) THEN row
              ELSE [row EXCEPT !.fidelity_composite = EmptyCell])
        ELSE [row EXCEPT !.fidelity_composite =
                 NumCell(compute_fidelity_composite(Val(sim), Val(rec), Val(prec), order))]

\* ensure_fidelity_composite: a row without a composite gets the composite of
\* its similarity, recall and precision when the three are defined.
EnsureComposite(row) ==
    IF ~IsNone(to_float(row.fidelity_composite)) THEN row
    ELSE LET sim == to_float(row.text_similarity)
             rec == to_float(row.content_recall)
             prec == to_float(row.content_precision)
             order == to_float(row.order_score)
         IN  IF IsNone(sim) \/ IsNone(rec) \/ IsNone(prec)
             THEN [row EXCEPT !.fidelity_composite = EmptyCell]
             ELSE [row EXCEPT !.fidelity_composite =
                      NumCell(compute_fidelity_composite(Val(sim), Val(rec),
                                                         Val(prec), order))]

ensure_fidelity_composite(rows) == Map(EnsureComposite, rows)

\* Lines 24-25 of command_baseline, 24-25 of command_routing
FidelityRows(rows) ==
    SelectSeq(ensure_fidelity_composite(rows),
              LAMBDA r : ~IsNone(to_float(r.fidelity_composite)))

CellAvg(grp, field) == RoundedAvg(Map(LAMBDA r : to_float(r[field]), grp))

BaselineRow(key, grp) ==
    key @@
    [ num_documents |-> Len(grp),
      composite_version |-> COMPOSITE_VERSION,
      fidelity_composite_avg |-> CellAvg(grp, "fidelity_composite"),
      text_similarity_avg |-> CellAvg(grp, "text_similarity"),
      content_recall_avg |-> CellAvg(grp, "content_recall"),
      content_precision_avg |-> CellAvg(grp, "content_precision"),
      order_score_avg |-> CellAvg(grp, "order_score") ]

HigherCompositeOrZero(x, y) ==
    OrZero(x.fidelity_composite_avg) > OrZero(y.fidelity_composite_avg)

TypeThenCompositeOrZero(x, y) ==
    \/ NameRank(x.doc_type) < NameRank(y.doc_type)
    \/ /\ x.doc_type = y.doc_type
       /\ 0 - OrZero(x.fidelity_composite_avg) < 0 - OrZero(y.fidelity_composite_avg)

\* group_rows(rows, key_fields), as the list of <<key, group>> in dict order
ConfigKey(r) == [parser_config |-> r.parser_config]
TypeConfigKey(r) == [doc_type |-> r.doc_type, parser_config |-> r.parser_config]

group_rows(rows, KeyOf(_)) ==
    Map(LAMBDA key : <<key, SelectSeq(rows, LAMBDA r : KeyOf(r) = key)>>,
        FirstSeen(Map(KeyOf, rows), {}))

\* command_baseline: <<baseline_rows, by_doc_type_rows>> as written
command_baseline(csv) ==
    LET fidelity_rows == FidelityRows(csv)
        baseline_rows ==
            Map(LAMBDA g : BaselineRow(g[1], g[2]), group_rows(fidelity_rows, ConfigKey))
        by_doc_type_rows ==
            Map(LAMBDA g : BaselineRow(g[1], g[2]),
                group_rows(fidelity_rows, TypeConfigKey))
    IN  <<StableSort(baseline_rows, HigherCompositeOrZero),
          StableSort(by_doc_type_rows, TypeThenCompositeOrZero)>>

-----------------------------------------------------------------------------
(* Specification: main's outputs and command_baseline                      *)
(*                                                                         *)
(* results is the list main's loop builds (lines 264-300): for each        *)
(* document, in order, one record per parser configuration.  A record is   *)
(* _empty_record when the extracted file is missing or the document has no *)
(* reference text, and carries score_reference_text's values otherwise.    *)
(* command_baseline reads the quality CSV that is on disk: the one main    *)
(* wrote, or an older one.  A file is None while it does not exist and     *)
(* Some(rows) once written.                                                *)
(***************************************************************************)

MaxDocs == 2

DocTypes == {"article", "report"}
ConfigLists == {<<"A">>, <<"B", "A">>}

\* What a (document, configuration) pair contributes to its record.
Unscored ==
    [ fidelity_composite |-> None, text_similarity |-> None, content_recall |-> None,
      content_precision |-> None, order_score |-> None ]
Scored(sim, rec, prec, order) ==
    [ fidelity_composite |-> Some(compute_fidelity_composite(sim, rec, prec, order)),
      text_similarity |-> Some(sim), content_recall |-> Some(rec),
      content_precision |-> Some(prec), order_score |-> order ]
PairScores == {Unscored, Scored(9000, 9000, 9000, Some(9000)), Scored(8000, 8000, 7000, None)}

\* The records of the documents from d on, each paired with every config.
RECURSIVE RecordsFrom(_, _, _, _)
RecordsFrom(d, docs, configs, scores) ==
    IF d > Len(docs) THEN << >>
    ELSE [c \in 1 .. Len(configs) |->
            [parser_config |-> configs[c], doc_type |-> docs[d]] @@ scores[d][c]]
         \o RecordsFrom(d + 1, docs, configs, scores)

ResultLists ==
    UNION { { RecordsFrom(1, docs, configs, scores) :
                scores \in [1 .. Len(docs) -> [1 .. Len(configs) -> PairScores]] } :
            docs \in UNION {[1 .. n -> DocTypes] : n \in 0 .. MaxDocs},
            configs \in ConfigLists }

\* Quality CSVs written before the composite column existed, or edited by hand.
CsvOf(config, doc_type, composite, sim, rec, prec, order) ==
    [ parser_config |-> config, doc_type |-> doc_type, fidelity_composite |-> composite,
      text_similarity |-> sim, content_recall |-> rec, content_precision |-> prec,
      order_score |-> order ]
OlderCsvs ==
    { << CsvOf("A", "article", EmptyCell, NumCell(9000), NumCell(8000), NumCell(8000),
               EmptyCell),
         CsvOf("B", "article", JunkCell, EmptyCell, NumCell(8000), NumCell(8000),
               EmptyCell),
         CsvOf("A", "report", NoneCell, NumCell(7000), NumCell(7000), NumCell(7000),
               NumCell(Unit)) >>,
      << >> }

InitLeaderboard ==
    /\ pc = "start"
    /\ IdleRest
    /\ IdleComposite
    /\ IdleSimilarity
    /\ IdlePresence
    /\ IdleRouting
    /\ IdleGates
    /\ IdleStrip
    /\ results \in ResultLists
    /\ qualityCsv \in {None} \cup {Some(csv) : csv \in OlderCsvs}
    /\ lbGlobal = None
    /\ lbByType = None
    /\ blGlobal = None
    /\ blByType = None

\* main, lines 302-308: the quality CSV, then _write_leaderboards(results).
WriteScoringOutputs ==
    /\ pc = "start"
    /\ qualityCsv' = Some(Map(CsvRow, results))
    /\ lbGlobal' = WrittenIfAny(lbGlobal, write_leaderboards(results)[1])
    /\ lbByType' = WrittenIfAny(lbByType, write_leaderboards(results)[2])
    /\ pc' = "scored"
    /\ UNCHANGED <<restVars, fidVars, simVars, presVars, routeVars, gateVars, stripVars,
                   results, blGlobal, blByType>>

\* command_baseline: FileNotFoundError from load_quality_rows when the CSV is
\* missing; else both files are written, write_csv leaving an empty file when
\* there is no row.
CommandBaseline ==
    /\ pc \in {"start", "scored"}
    /\ IF IsNone(qualityCsv)
       THEN /\ pc' = "raised"
            /\ UNCHANGED <<blGlobal, blByType>>
       ELSE /\ pc' = "baselined"
            /\ blGlobal' = Some(command_baseline(Val(qualityCsv))[1])
            /\ blByType' = Some(command_baseline(Val(qualityCsv))[2])
    /\ UNCHANGED <<restVars, fidVars, simVars, presVars, routeVars, gateVars, stripVars,
                   results, qualityCsv, lbGlobal, lbByType>>

NextLeaderboard == WriteScoringOutputs \/ CommandBaseline

SpecLeaderboard == InitLeaderboard /\ [][NextLeaderboard]_vars

\* The records or CSV rows a leaderboard row stands for.
C5_Contributing(rows, row, HasComposite(_)) ==
    {j \in 1 .. Len(rows) :
        /\ rows[j].parser_config = row.parser_config
        /\ "doc_type" \in DOMAIN row => rows[j].doc_type = row.doc_type
        /\ HasComposite(rows[j])}

C5_RowsCount(board, rows, HasComposite(_)) ==
    ~IsNone(board) =>
        \A i \in 1 .. Len(Val(board)) :
            /\ Val(board)[i].num_documents >= 1
            /\ Val(board)[i].num_documents =
                  Cardinality(C5_Contributing(rows, Val(board)[i], HasComposite))

C5_InMemory(r) == ~IsNone(r.fidelity_composite)
C5_InCsv(r) == ~IsNone(to_float(EnsureComposite(r).fidelity_composite))

\* C5: every row of the global and of the per-doc-type leaderboard, written
\* by _write_leaderboards or by command_baseline, has num_documents >= 1, and
\* num_documents is the number of rows of its group that carry a defined
\* composite fidelity: a group without such a row has no leaderboard row.
C5_NoEmptyGroupRow ==
    /\ C5_RowsCount(lbGlobal, results, C5_InMemory)
    /\ C5_RowsCount(lbByType, results, C5_InMemory)
    /\ C5_RowsCount(blGlobal, Val(qualityCsv), C5_InCsv)
    /\ C5_RowsCount(blByType, Val(qualityCsv), C5_InCsv)

\* Configuration B has records, none with a composite; both global
\* leaderboards are written and hold the row of A alone.
C5_Witness ==
    /\ pc = "baselined"
    /\ \E j \in 1 .. Len(results) : results[j].parser_config = "B"
    /\ ~IsNone(lbGlobal) /\ ~IsNone(lbByType)
    /\ Len(Val(lbGlobal)) = 1 /\ Val(lbGlobal)[1].parser_config = "A"
    /\ Len(Val(blGlobal)) = 1 /\ Val(blGlobal)[1].parser_config = "A"
    /\ Val(blGlobal)[1].num_documents = 2
    /\ Len(Val(blByType)) = 2

-----------------------------------------------------------------------------
(* The leaderboard columns: means (C14) and order of the rows (C15) *)

\* Scores whose sums over two or three documents are not multiples of the
\* number of documents.
RoundingPairScores ==
    {Unscored, Scored(9000, 9000, 9000, Some(9000)), Scored(8001, 8000, 7000, None)}

RoundingResultLists ==
    UNION { { RecordsFrom(1, docs, configs, scores) :
                scores \in [1 .. Len(docs) -> [1 .. Len(configs) -> RoundingPairScores]] } :
            docs \in UNION {[1 .. n -> DocTypes] : n \in 0 .. MaxDocs},
            configs \in ConfigLists }

InitAverages ==
    /\ pc = "start"
    /\ IdleRest
    /\ IdleComposite
    /\ IdleSimilarity
    /\ IdlePresence
    /\ IdleRouting
    /\ IdleGates
    /\ IdleStrip
    /\ results \in RoundingResultLists
    /\ qualityCsv \in {None} \cup {Some(csv) : csv \in OlderCsvs}
    /\ lbGlobal = None
    /\ lbByType = None
    /\ blGlobal = None
    /\ blByType = None

SpecAverages == InitAverages /\ [][NextLeaderboard]_vars

AvgColumn ==
    [ fidelity_composite |-> "fidelity_composite_avg",
      text_similarity |-> "text_similarity_avg",
      content_recall |-> "content_recall_avg",
      content_precision |-> "content_precision_avg",
      order_score |-> "order_score_avg" ]

C14_InMemory(r, f) == r[f]
C14_InCsv(r, f) == to_float(EnsureComposite(r)[f])

\* The rows of the group of a leaderboard row in which field f is defined,
\* and the sum of f over them.
C14_DefinedIn(rows, row, f, HasComposite(_), ValueOf(_, _)) ==
    {j \in C5_Contributing(rows, row, HasComposite) : ~IsNone(ValueOf(rows[j], f))}
C14_SumOver(rows, js, f, ValueOf(_, _)) ==
    SeqSum([j \in 1 .. Len(rows) |-> IF j \in js THEN Val(ValueOf(rows[j], f)) ELSE 0],
           Len(rows))

\* Column f of every row of the board is null when no row of the group
\* defines f, else within Tolerance / (2 n) units of the mean of the n rows
\* that define it (Tolerance 0: the mean itself; n: the mean rounded).
C14_Columns(board, rows, HasComposite(_), ValueOf(_, _), exact) ==
    ~IsNone(board) =>
        \A i \in 1 .. Len(Val(board)) : \A f \in DOMAIN AvgColumn :
            LET row == Val(board)[i]
                js == C14_DefinedIn(rows, row, f, HasComposite, ValueOf)
                n == Cardinality(js)
                col == row[AvgColumn[f]]
            IN  IF n = 0 THEN IsNone(col)
                ELSE /\ ~IsNone(col)
                     /\ 2 * Abs(Val(col) * n - C14_SumOver(rows, js, f, ValueOf))
                           <= (IF exact THEN 0 ELSE n)

\* C14 as stated: each numeric leaderboard column is the arithmetic mean over
\* the rows of the group where the field is defined, null when there is none.
C14_AsStated ==
    /\ C14_Columns(lbGlobal, results, C5_InMemory, C14_InMemory, TRUE)
    /\ C14_Columns(lbByType, results, C5_InMemory, C14_InMemory, TRUE)
    /\ C14_Columns(blGlobal, Val(qualityCsv), C5_InCsv, C14_InCsv, TRUE)
    /\ C14_Columns(blByType, Val(qualityCsv), C5_InCsv, C14_InCsv, TRUE)

\* C14: each numeric leaderboard column, of either writer, is the arithmetic
\* mean rounded to 4 decimals (so within 0.00005 of the mean) over the rows of
\* the group (the rows with a defined composite) where the field is defined:
\* an undefined value is not counted, and the column is null when no row of
\* the group defines the field.
C14_RoundedMeanOfDefined ==
    /\ C14_Columns(lbGlobal, results, C5_InMemory, C14_InMemory, FALSE)
    /\ C14_Columns(lbByType, results, C5_InMemory, C14_InMemory, FALSE)
    /\ C14_Columns(blGlobal, Val(qualityCsv), C5_InCsv, C14_InCsv, FALSE)
    /\ C14_Columns(blByType, Val(qualityCsv), C5_InCsv, C14_InCsv, FALSE)

\* Both writers have run; a group of two documents has an order score in one
\* of them only, and a similarity mean that falls between two 4-decimal values.
C14_Witness ==
    /\ pc = "baselined"
    /\ ~IsNone(lbGlobal) /\ ~IsNone(blGlobal)
    /\ \E i \in 1 .. Len(Val(lbGlobal)) :
          /\ Val(lbGlobal)[i].num_documents = 2
          /\ Val(lbGlobal)[i].order_score_avg = Some(9000)
          /\ Val(lbGlobal)[i].text_similarity_avg = Some(8500)
    /\ \E i \in 1 .. Len(Val(blGlobal)) :
          /\ Val(blGlobal)[i].num_documents = 2
          /\ Val(blGlobal)[i].order_score_avg = Some(9000)

C15_Composite(row) == OrZero(row.fidelity_composite_avg)

C15_ByComposite(board) ==
    ~IsNone(board) =>
        \A i, j \in 1 .. Len(Val(board)) :
            i < j => C15_Composite(Val(board)[i]) >= C15_Composite(Val(board)[j])

C15_ByTypeThenComposite(board) ==
    ~IsNone(board) =>
        \A i, j \in 1 .. Len(Val(board)) :
            i < j =>
               \/ NameRank(Val(board)[i].doc_type) < NameRank(Val(board)[j].doc_type)
               \/ /\ Val(board)[i].doc_type = Val(board)[j].doc_type
                  /\ C15_Composite(Val(board)[i]) >= C15_Composite(Val(board)[j])

\* C15: the global leaderboard is in non-increasing order of mean composite
\* fidelity, the per-doc-type leaderboard in ascending order of doc type and,
\* within a doc type, in non-increasing order of mean composite fidelity; for
\* _write_leaderboards and for command_baseline.
C15_LeaderboardsSorted ==
    /\ C15_ByComposite(lbGlobal)
    /\ C15_ByComposite(blGlobal)
    /\ C15_ByTypeThenComposite(lbByType)
    /\ C15_ByTypeThenComposite(blByType)

\* Both writers have run on two doc types and two configurations, B ahead of
\* A by its mean composite although A comes first by name.
C15_Witness ==
    /\ pc = "baselined"
    /\ ~IsNone(lbGlobal) /\ ~IsNone(blGlobal) /\ ~IsNone(lbByType) /\ ~IsNone(blByType)
    /\ Len(Val(lbGlobal)) = 2 /\ Len(Val(blGlobal)) = 2
    /\ Val(lbGlobal)[1].parser_config = "B"
    /\ C15_Composite(Val(lbGlobal)[1]) > C15_Composite(Val(lbGlobal)[2])
    /\ Val(blGlobal)[1].parser_config = "B"
    /\ \E i \in 1 .. Len(Val(lbByType)) : Val(lbByType)[i].doc_type # Val(lbByType)[1].doc_type
    /\ \E i \in 1 .. Len(Val(blByType)) : Val(blByType)[i].doc_type # Val(blByType)[1].doc_type

-----------------------------------------------------------------------------
(* fidelity/routing.py: command_routing                                    *)
(*                                                                         *)
(* Python floats are binary: the difference of two decimal values is the   *)
(* exact difference up to a rounding error whose direction depends on the  *)
(* operands (0.815 - 0.8 is 0.014999999999999902, 1.0 - 0.985 is           *)
(* 0.015000000000000013), and x - x is exactly 0.  A difference is held in *)
(* units of 1/(Unit * FloatGrain), one such unit standing for the rounding *)
(* error.                                                                  *)
(***************************************************************************)

WINNER_MARGIN_THRESHOLD == 150

FloatGrain == 2 ^ 4
FloatErrors == {0 - 1, 0, 1}

FloatSub(a, b, err) == IF a = b THEN 0 ELSE (a - b) * FloatGrain + err

\* round(x, 4) of a difference
RoundDiff(x) == RoundHalfEven(x, FloatGrain)

\* Lines 30-41: the candidates of a doc type, in the order of grouped.items()
RoutingCandidate(key, grp) ==
    [ parser_config |-> key.parser_config,
      num_documents |-> Len(grp),
      fidelity_composite_avg |-> CellAvg(grp, "fidelity_composite"),
      content_recall_avg |-> CellAvg(grp, "content_recall") ]

Candidates(grouped, doc_type) ==
    Map(LAMBDA g : RoutingCandidate(g[1], g[2]),
        SelectSeq(grouped, LAMBDA g : g[1].doc_type = doc_type))

\* Lines 50-63: the decision for one doc type
RoutingDecision(unsorted, err) ==
    LET candidates == StableSort(unsorted, HigherCompositeOrZero)
        best == candidates[1]
        fallback == IF Len(candidates) > 1 THEN Some(candidates[2]) ELSE None
        margin == IF ~IsNone(fallback)
                  THEN Some(FloatSub(OrZero(best.fidelity_composite_avg),
                                     OrZero(Val(fallback).fidelity_composite_avg), err))
                  ELSE None
    IN  [ recommended |-> best,
          fallback |-> fallback,
          winner_margin |-> IF IsNone(margin) THEN None ELSE Some(RoundDiff(Val(margin))),
          low_confidence |->
              ~IsNone(margin) /\ Val(margin) < WINNER_MARGIN_THRESHOLD * FloatGrain ]

\* command_routing: doc_type_routing, a function of the doc types that have
\* a row with a defined composite.
command_routing(csv, err) ==
    LET fidelity_rows == FidelityRows(csv)
        grouped == group_rows(fidelity_rows, TypeConfigKey)
    IN  [doc_type \in {fidelity_rows[i].doc_type : i \in 1 .. Len(fidelity_rows)} |->
            RoutingDecision(Candidates(grouped, doc_type), err[doc_type])]

MaxRoutingRows == 3

RoutingCsvRows ==
    { CsvOf(config, "article", composite, NumCell(8000), NumCell(8000), NumCell(8000),
            EmptyCell) :
        config \in {"A", "B", "C"},
        composite \in {NumCell(9000), NumCell(8400), NumCell(8150), NumCell(8000),
                       NumCell(7900)} }
    \cup { CsvOf(config, "report", composite, EmptyCell, EmptyCell, EmptyCell, EmptyCell) :
             config \in {"A", "B"}, composite \in {NumCell(8000), EmptyCell} }

InitRouting ==
    /\ pc = "start"
    /\ IdleRest
    /\ IdleComposite
    /\ IdleSimilarity
    /\ IdlePresence
    /\ IdleGates
    /\ IdleStrip
    /\ results = << >>
    /\ lbGlobal = None
    /\ lbByType = None
    /\ blGlobal = None
    /\ blByType = None
    /\ qualityCsv \in {None} \cup
          {Some(csv) : csv \in UNION {[1 .. n -> RoutingCsvRows] : n \in 0 .. MaxRoutingRows}}
    /\ routingJson = None

\* command_routing: FileNotFoundError from load_quality_rows when the CSV is
\* missing; else the routing file is written.
CommandRouting ==
    /\ pc = "start"
    /\ IF IsNone(qualityCsv)
       THEN /\ pc' = "raised"
            /\ UNCHANGED routingJson
       ELSE /\ pc' = "routed"
            /\ \E err \in [DocTypes -> FloatErrors] :
                  routingJson' = Some(command_routing(Val(qualityCsv), err))
    /\ UNCHANGED <<restVars, fidVars, simVars, presVars, lbVars, gateVars, stripVars>>

NextRouting == CommandRouting

SpecRouting == InitRouting /\ [][NextRouting]_vars

\* The configurations of a doc type that have a row with a defined composite,
\* and the mean composite of one of them as its leaderboard row reports it.
C6_Configs(t) ==
    {r.parser_config : r \in {x \in SetOf(FidelityRows(Val(qualityCsv))) : x.doc_type = t}}
C6_Mean(t, c) ==
    Val(CellAvg(SelectSeq(FidelityRows(Val(qualityCsv)),
                          LAMBDA r : r.doc_type = t /\ r.parser_config = c),
                "fidelity_composite"))

C6_Decision(t) == Val(routingJson)[t]

\* C6: for each doc type command_routing recommends the configuration with
\* the highest mean composite fidelity, the fallback is the second highest
\* (null with a single configuration), winner_margin is recommended score
\* minus fallback score (null without fallback), and low_confidence is true
\* exactly when a fallback exists and that margin is below 0.015.
C6_RoutingDecision ==
    pc = "routed" =>
        /\ DOMAIN Val(routingJson) = {t \in DocTypes : C6_Configs(t) # {}}
        /\ \A t \in DOMAIN Val(routingJson) :
            LET d == C6_Decision(t)
                rec == d.recommended.parser_config
                others == C6_Configs(t) \ {rec}
            IN  /\ rec \in C6_Configs(t)
                /\ d.recommended.fidelity_composite_avg = Some(C6_Mean(t, rec))
                /\ \A c \in others : C6_Mean(t, c) <= C6_Mean(t, rec)
                /\ IF others = {}
                   THEN /\ IsNone(d.fallback)
                        /\ IsNone(d.winner_margin)
                        /\ ~d.low_confidence
                   ELSE /\ ~IsNone(d.fallback)
                        /\ Val(d.fallback).parser_config \in others
                        /\ \A c \in others :
                              C6_Mean(t, c) <= C6_Mean(t, Val(d.fallback).parser_config)
                        /\ d.winner_margin =
                              Some(C6_Mean(t, rec) - C6_Mean(t, Val(d.fallback).parser_config))
                        /\ d.low_confidence <=>
                              Val(d.winner_margin) < WINNER_MARGIN_THRESHOLD

-----------------------------------------------------------------------------
(* fidelity/gates.py: command_gates *)

RECALL_FLOOR == 8000
GLOBAL_REGRESSION_MAX == 0

\* Lines 23-24: {r["parser_config"]: to_float(...)}, a later row of the same
\* configuration replacing an earlier one.
ByConfig(rows) ==
    [c \in {rows[i].parser_config : i \in 1 .. Len(rows)} |->
        LET last == CHOOSE i \in 1 .. Len(rows) :
                       /\ rows[i].parser_config = c
                       /\ \A j \in (i + 1) .. Len(rows) : rows[j].parser_config # c
        IN  to_float(rows[last].fidelity_composite_avg)]

\* Variant for comparison: an undefined composite taken as 0.0 instead of
\* skipped on line 36.
DeltaRowsZeroFilled(common_configs, baseline_by_config, candidate_by_config, err) ==
    Map(LAMBDA config :
          LET b == OrZero(baseline_by_config[config])
              c == OrZero(candidate_by_config[config])
              delta == FloatSub(c, b, err[config])
          IN  [parser_config |-> config, baseline |-> b, candidate |-> c,
               delta |-> RoundDiff(delta), unrounded |-> delta],
        common_configs)

\* Lines 30-47: delta_rows, each with its unrounded delta
DeltaRows(common_configs, baseline_by_config, candidate_by_config, err) ==
    Map(LAMBDA config :
          LET b == Val(baseline_by_config[config])
              c == Val(candidate_by_config[config])
              delta == FloatSub(c, b, err[config])
          IN  [parser_config |-> config, baseline |-> b, candidate |-> c,
               delta |-> RoundDiff(delta), unrounded |-> delta],
        SelectSeq(common_configs, LAMBDA config :
                    ~IsNone(baseline_by_config[config])
                    /\ ~IsNone(candidate_by_config[config])))

\* Lines 58-68
RecallValues(candidate_rows) ==
    {Val(to_float(candidate_rows[i].content_recall_avg)) :
        i \in {j \in 1 .. Len(candidate_rows) :
                 ~IsNone(to_float(candidate_rows[j].content_recall_avg))}}
Min(values) == CHOOSE v \in values : \A w \in values : v <= w
\* Variant for comparison: a recall at the floor fails.
PassRecallAbove(recall_values) == recall_values = {} \/ Min(recall_values) > RECALL_FLOOR
PassRecall(recall_values) == recall_values = {} \/ Min(recall_values) >= RECALL_FLOOR

\* Variant for comparison: the report emptied before the checks.
ReportBlanked(old) == Some(<< >>)
\* What an exception raised before line 92 leaves of the report file.
ReportAfterRaise(old) == old

\* command_gates: the exception it raises and the report file after the call.
command_gates(baseline_rows, candidate_rows, old_report, err) ==
    LET baseline_by_config == ByConfig(baseline_rows)
        candidate_by_config == ByConfig(candidate_rows)
        common_configs ==
            SortedNames(DOMAIN baseline_by_config \cap DOMAIN candidate_by_config)
        delta_rows ==
            DeltaRows(common_configs, baseline_by_config, candidate_by_config, err)
        deltas == Map(LAMBDA r : r.unrounded, delta_rows)
        \* avg(deltas) as the sum over the count
        delta_sum == SeqSum(deltas, Len(deltas))
        pass_global == delta_sum >= GLOBAL_REGRESSION_MAX * Len(deltas)
        recall_values == RecallValues(candidate_rows)
        pass_recall == PassRecall(recall_values)
    IN  IF common_configs = << >>
        THEN [raised |-> "ValueError", report |-> ReportAfterRaise(old_report)]
        ELSE IF deltas = << >>
        THEN [raised |-> "ValueError", report |-> ReportAfterRaise(old_report)]
        ELSE [ raised |-> "",
               report |->
                 Some([ global_delta |->
                            RoundHalfEven(delta_sum, Len(deltas) * FloatGrain),
                        global_regression_pass |-> pass_global,
                        min_recall |-> IF recall_values = {} THEN None
                                       ELSE Some(Min(recall_values)),
                        recall_floor_pass |-> pass_recall,
                        accepted |-> pass_global /\ pass_recall,
                        config_deltas |->
                            Map(LAMBDA r : [parser_config |-> r.parser_config,
                                            baseline |-> r.baseline,
                                            candidate |-> r.candidate,
                                            delta |-> r.delta],
                                delta_rows) ]) ]

MaxGateConfigs == 2
GateConfigs == SetOf(SubSeq(<<"X", "Y", "Z">>, 1, MaxGateConfigs))

LeaderboardCells(composite, recall) ==
    [fidelity_composite_avg |-> composite, content_recall_avg |-> recall]
BaselineCells ==
    { LeaderboardCells(NumCell(5000), EmptyCell),
      LeaderboardCells(NumCell(6400), NumCell(7000)),
      LeaderboardCells(EmptyCell, EmptyCell) }
CandidateCells ==
    { LeaderboardCells(NumCell(5700), EmptyCell),
      LeaderboardCells(NumCell(5700), NumCell(8000)),
      LeaderboardCells(NumCell(5700), NumCell(7900)),
      LeaderboardCells(NumCell(5000), NumCell(9000)),
      LeaderboardCells(NumCell(6400), EmptyCell),
      LeaderboardCells(JunkCell, NumCell(7900)) }

\* The leaderboard files with one row for each configuration of a set.
LeaderboardFiles(cells) ==
    UNION { { Map(LAMBDA c : [parser_config |-> c] @@ pick[c], SortedNames(configs)) :
                pick \in [configs -> cells] } :
            configs \in SUBSET GateConfigs }

\* A report left by an earlier run.
EarlierReport ==
    [ global_delta |-> 0, global_regression_pass |-> TRUE, min_recall |-> None,
      recall_floor_pass |-> TRUE, accepted |-> TRUE, config_deltas |-> << >> ]

InitGates ==
    /\ pc = "start"
    /\ IdleRest
    /\ IdleComposite
    /\ IdleSimilarity
    /\ IdlePresence
    /\ IdleLeaderboard
    /\ IdleRouting
    /\ IdleStrip
    /\ baselineCsv \in {None} \cup {Some(f) : f \in LeaderboardFiles(BaselineCells)}
    /\ candidateCsv \in {None} \cup {Some(f) : f \in LeaderboardFiles(CandidateCells)}
    /\ gatesJson \in {None, Some(EarlierReport)}

CommandGates ==
    /\ pc = "start"
    /\ IF IsNone(baselineCsv) \/ IsNone(candidateCsv)
       THEN /\ pc' = "FileNotFoundError"
            /\ gatesJson' = ReportAfterRaise(gatesJson)
       ELSE \E err \in [GateConfigs -> FloatErrors] :
              LET out == command_gates(Val(baselineCsv), Val(candidateCsv), gatesJson, err)
              IN  /\ pc' = IF out.raised # "" THEN out.raised ELSE "gated"
                  /\ gatesJson' = out.report
    /\ UNCHANGED <<restVars, fidVars, simVars, presVars, lbVars, routeVars, stripVars,
                   baselineCsv, candidateCsv>>

NextGates == CommandGates

SpecGates == InitGates /\ [][NextGates]_vars

C7_Composite(file, c) ==
    to_float((CHOOSE r \in SetOf(Val(file)) : r.parser_config = c).fidelity_composite_avg)

\* The configurations present in both leaderboards with a composite in each.
C7_Compared ==
    {c \in GateConfigs :
        /\ \E r \in SetOf(Val(baselineCsv)) : r.parser_config = c
        /\ \E r \in SetOf(Val(candidateCsv)) : r.parser_config = c
        /\ ~IsNone(C7_Composite(baselineCsv, c))
        /\ ~IsNone(C7_Composite(candidateCsv, c))}

C7_Delta(c) == Val(C7_Composite(candidateCsv, c)) - Val(C7_Composite(baselineCsv, c))

RECURSIVE C7_SumOfDeltas(_)
C7_SumOfDeltas(configs) ==
    IF configs = {} THEN 0
    ELSE LET c == CHOOSE x \in configs : TRUE
         IN  C7_Delta(c) + C7_SumOfDeltas(configs \ {c})

\* C7: the per-configuration delta is candidate minus baseline composite for
\* the configurations in both leaderboards, global_delta is the arithmetic
\* mean of those deltas, and the global-regression gate passes exactly when
\* that mean is >= 0.
C7_GlobalRegressionGate ==
    pc = "gated" =>
        LET report == Val(gatesJson)
        IN  /\ {r.parser_config : r \in SetOf(report.config_deltas)} = C7_Compared
            /\ \A r \in SetOf(report.config_deltas) : r.delta = C7_Delta(r.parser_config)
            /\ report.global_delta =
                  RoundHalfEven(C7_SumOfDeltas(C7_Compared), Cardinality(C7_Compared))
            /\ report.global_regression_pass <=> C7_SumOfDeltas(C7_Compared) >= 0

C8_Configs(file) == {r.parser_config : r \in SetOf(Val(file))}

C8_NoSharedConfig ==
    /\ ~IsNone(baselineCsv)
    /\ ~IsNone(candidateCsv)
    /\ C8_Configs(baselineCsv) \cap C8_Configs(candidateCsv) = {}

\* C8: when the two leaderboards share no parser configuration, command_gates
\* raises ValueError and the report file is left as it was before the call.
C8_NoReportWithoutOverlap ==
    [][C8_NoSharedConfig => pc' = "ValueError" /\ gatesJson' = gatesJson]_vars

\* The call was made on leaderboards with rows and no shared configuration,
\* with a report of an earlier run on disk: it raised, and the report is that one.
C8_Witness ==
    /\ pc = "ValueError"
    /\ C8_NoSharedConfig
    /\ C8_Configs(baselineCsv) # {}
    /\ C8_Configs(candidateCsv) # {}
    /\ gatesJson = Some(EarlierReport)

\* C9: the recall-floor gate fails exactly when some candidate row has a
\* defined mean content_recall below 0.80, and accepted is true if and only
\* if both the global-regression gate and the recall-floor gate pass.
C9_RecallFloorAndAccepted ==
    pc = "gated" =>
        LET report == Val(gatesJson)
        IN  /\ ~report.recall_floor_pass <=>
                  \E r \in SetOf(Val(candidateCsv)) :
                      /\ ~IsNone(to_float(r.content_recall_avg))
                      /\ Val(to_float(r.content_recall_avg)) < RECALL_FLOOR
            /\ report.accepted <=>
                  report.global_regression_pass /\ report.recall_floor_pass

\* A candidate with one recall at the floor and one undefined passes the
\* recall gate and is accepted.
C9_Witness ==
    /\ pc = "gated"
    /\ \E r \in SetOf(Val(candidateCsv)) : r.content_recall_avg = NumCell(RECALL_FLOOR)
    /\ \E r \in SetOf(Val(candidateCsv)) : IsNone(to_float(r.content_recall_avg))
    /\ Val(gatesJson).recall_floor_pass
    /\ Val(gatesJson).accepted

\* Both leaderboards were read.
C19_BothRead == ~IsNone(baselineCsv) /\ ~IsNone(candidateCsv)

\* C19: in the regression gate a composite that is missing or not numeric in
\* either leaderboard is undefined, not 0: the report has a delta for exactly
\* the shared configurations with a composite on both sides, global_delta is
\* the mean of the deltas of those configurations alone (to the nearest
\* fourth decimal), and when there is no such configuration the command
\* raises ValueError and reports nothing.
C19_UndefinedIsNotZero ==
    [][C19_BothRead /\ C8_Configs(baselineCsv) \cap C8_Configs(candidateCsv) # {} =>
         IF C7_Compared = {}
         THEN pc' = "ValueError" /\ gatesJson' = gatesJson
         ELSE /\ pc' = "gated"
              /\ LET report == Val(gatesJson')
                      n == Cardinality(C7_Compared)
                 IN  /\ Len(report.config_deltas) = n
                     /\ {r.parser_config : r \in SetOf(report.config_deltas)} = C7_Compared
                     /\ 2 * Abs(report.global_delta * n - C7_SumOfDeltas(C7_Compared)) <= n
      ]_vars

\* The gate ran on leaderboards sharing a configuration whose composite is
\* not numeric on one side and another with a composite on both sides: the
\* report has the delta of the second only, and global_delta is that delta.
C19_Witness ==
    /\ pc = "gated"
    /\ \E c \in C8_Configs(baselineCsv) \cap C8_Configs(candidateCsv) :
          /\ ~IsNone(C7_Composite(baselineCsv, c))
          /\ IsNone(C7_Composite(candidateCsv, c))
    /\ Len(Val(gatesJson).config_deltas) = 1
    /\ Val(gatesJson).global_delta = Val(gatesJson).config_deltas[1].delta
    /\ Val(gatesJson).global_delta # 0

-----------------------------------------------------------------------------
(* scoring/utils.py: strip_references_section                              *)
(*                                                                         *)
(* A text is the sequence of its characters.  str.lower() maps a character *)
(* to one character, except U+0130 (capital I with dot above), which it    *)
(* maps to the two characters i and U+0307.                                *)
(***************************************************************************)

REFERENCES_SEARCH_START_FRACTION == 4000

DottedI == "U+0130"
CombiningDot == "U+0307"

LowerChar(c) ==
    CASE c = "R" -> <<"r">>
      [] c = "B" -> <<"b">>
      [] c = DottedI -> <<"i", CombiningDot>>
      [] OTHER -> <<c>>

RECURSIVE Lower(_)
Lower(text) == IF text = << >> THEN << >> ELSE LowerChar(Head(text)) \o Lower(Tail(text))

ReferencesWord == <<"r", "e", "f", "e", "r", "e", "n", "c", "e", "s">>
BibliographyWord == <<"b", "i", "b", "l", "i", "o", "g", "r", "a", "p", "h", "y">>

\* Line 109-110, in the order they are tried
Markers ==
    << <<"\n">> \o ReferencesWord \o <<"\n">>,
       <<"\n", "#", " ">> \o ReferencesWord,
       <<"\n">> \o BibliographyWord \o <<"\n">>,
       <<"\n", "#", " ">> \o BibliographyWord >>

\* str positions are counted from 0: s[p : p + len(marker)] == marker
OccursAt(str, marker, p) ==
    /\ p + Len(marker) <= Len(str)
    /\ SubSeq(str, p + 1, p + Len(marker)) = marker

\* str.rfind(marker, start)
rfind(str, marker, start) ==
    LET found == {p \in start .. Len(str) : OccursAt(str, marker, p)}
    IN  IF found = {} THEN 0 - 1 ELSE CHOOSE p \in found : \A q \in found : q <= p

Whitespace == {"\n", " "}

RECURSIVE lstrip(_)
lstrip(str) ==
    IF str # << >> /\ Head(str) \in Whitespace THEN lstrip(Tail(str)) ELSE str

RECURSIVE rstrip(_)
rstrip(str) ==
    IF str # << >> /\ str[Len(str)] \in Whitespace
    THEN rstrip(SubSeq(str, 1, Len(str) - 1))
    ELSE str

strip(str) == rstrip(lstrip(str))

\* text[:pos]
Prefix(text, pos) == SubSeq(text, 1, IF pos < Len(text) THEN pos ELSE Len(text))

Cutoff(text) == (Len(text) * REFERENCES_SEARCH_START_FRACTION) \div Unit

RECURSIVE StripFrom(_, _)
StripFrom(text, m) ==
    IF m > Len(Markers) THEN text
    ELSE LET pos == rfind(Lower(text), Markers[m], Cutoff(text))
         IN  IF pos >= 0 THEN strip(Prefix(text, pos)) ELSE StripFrom(text, m + 1)

strip_references_section(text) == StripFrom(text, 1)

MaxSegments == 5

Segments ==
    { <<"x">>, <<"t", "e", "x", "t">>, <<"\n">>, <<DottedI>>,
      <<"R">> \o Tail(ReferencesWord),
      <<"#", " ">> \o ReferencesWord,
      <<"B">> \o Tail(BibliographyWord),
      <<"#", " ">> \o BibliographyWord }

Texts == UNION { {Concat(segs) : segs \in [1 .. n -> Segments]} : n \in 0 .. MaxSegments }

InitStrip ==
    /\ pc = "start"
    /\ IdleRest
    /\ IdleComposite
    /\ IdleSimilarity
    /\ IdlePresence
    /\ IdleLeaderboard
    /\ IdleRouting
    /\ IdleGates
    /\ stripIn \in Texts
    /\ stripOut = << >>

StripReferencesSection ==
    /\ pc = "start"
    /\ stripOut' = strip_references_section(stripIn)
    /\ pc' = "done"
    /\ UNCHANGED <<restVars, fidVars, simVars, presVars, lbVars, routeVars, gateVars, stripIn>>

NextStrip == StripReferencesSection

SpecStrip == InitStrip /\ [][NextStrip]_vars

\* A marker starts at position p of the text, letter case apart.
C10_MarkerAt(text, p) ==
    \E m \in 1 .. Len(Markers) :
        /\ p + Len(Markers[m]) <= Len(text)
        /\ \A k \in 1 .. Len(Markers[m]) : LowerChar(text[p + k]) = <<Markers[m][k]>>

\* C10: a text with no references/bibliography marker starting at or after
\* 40% of its length (the position int(len * 0.40)) is returned unchanged,
\* whatever markers it has before that position.
C10_UnchangedWithoutLateMarker ==
    /\ pc = "done"
    /\ \A p \in Cutoff(stripIn) .. Len(stripIn) : ~C10_MarkerAt(stripIn, p)
    => stripOut = stripIn

-----------------------------------------------------------------------------
(* scoring/content.py, scoring/metadata.py, scoring/similarity.py: the
   weighted aggregates. Ratios are on the fixed-point scale (Unit), the two
   0-100 scores are in tenths, as round(x, 1) leaves them. *)

\* Weights in hundredths: 0.50, 0.30, 0.20.
WEIGHT_FRAGMENTATION == 50
WEIGHT_SECTION_ORDER == 30
WEIGHT_DUPLICATES == 20
WORST_FRAGMENTATION_RATIO == 4000
WORST_DUPLICATE_RATIO == 2000

Hundred == 10 ^ 2
Tenths == 10 ^ 1

RECURSIVE Gcd(_, _)
Gcd(a, b) == IF b = 0 THEN a ELSE Gcd(b, a % b)
Lcm(a, b) == (a * b) \div Gcd(a, b)
Clamp(x, lo, hi) == IF x < lo THEN lo ELSE IF x > hi THEN hi ELSE x

\* _ratio_to_score(value, worst) = max(0, min(100, (1 - value / worst) * 100)),
\* as the numerator of a fraction over worst, in hundredths of the 0-100 score.
ratio_to_score(value, worst) == worst - Clamp(value, 0, worst)

\* Variant for comparison: an undefined section order counted as 0, weights kept.
compute_structural_quality_flat(fragmentation, section_order, duplicate_ratio) ==
    LET s_frag == ratio_to_score(fragmentation, WORST_FRAGMENTATION_RATIO)
        s_dupes == ratio_to_score(duplicate_ratio, WORST_DUPLICATE_RATIO)
        den == Lcm(Lcm(WORST_FRAGMENTATION_RATIO, WORST_DUPLICATE_RATIO), Unit)
    IN  RoundHalfEven(
            ( s_frag * WEIGHT_FRAGMENTATION * (den \div WORST_FRAGMENTATION_RATIO)
              + OrZero(section_order) * WEIGHT_SECTION_ORDER * (den \div Unit)
              + s_dupes * WEIGHT_DUPLICATES * (den \div WORST_DUPLICATE_RATIO) )
            * Tenths,
            den)

\* compute_structural_quality: the weight of an undefined section order is
\* given to the two other components in proportion.
compute_structural_quality(fragmentation, section_order, duplicate_ratio) ==
    LET s_frag == ratio_to_score(fragmentation, WORST_FRAGMENTATION_RATIO)
        s_dupes == ratio_to_score(duplicate_ratio, WORST_DUPLICATE_RATIO)
        den == Lcm(Lcm(WORST_FRAGMENTATION_RATIO, WORST_DUPLICATE_RATIO), Unit)
        total == WEIGHT_FRAGMENTATION + WEIGHT_DUPLICATES
    IN  IF ~IsNone(section_order)
        THEN RoundHalfEven(
                 ( s_frag * WEIGHT_FRAGMENTATION * (den \div WORST_FRAGMENTATION_RATIO)
                   + Val(section_order) * WEIGHT_SECTION_ORDER * (den \div Unit)
                   + s_dupes * WEIGHT_DUPLICATES * (den \div WORST_DUPLICATE_RATIO) )
                 * Tenths,
                 den)
        ELSE RoundHalfEven(
                 ( s_frag * WEIGHT_FRAGMENTATION * (den \div WORST_FRAGMENTATION_RATIO)
                   + s_dupes * WEIGHT_DUPLICATES * (den \div WORST_DUPLICATE_RATIO) )
                 * Tenths * Hundred,
                 den * total)

\* _ACCURACY_WEIGHTS, in the order of the values dict.
AccuracyFields == <<"title", "authors", "doi", "date", "source", "abstract", "keywords">>
ACCURACY_WEIGHTS ==
    [ title |-> 20, authors |-> 20, doi |-> 15, date |-> 10, source |-> 10,
      abstract |-> 15, keywords |-> 10 ]

\* compute_metadata_accuracy_score(values): weight and weighted value summed
\* over the fields that are not None, 0.0 when there is none.
compute_metadata_accuracy_score(values) ==
    LET weight(i) == IF IsNone(values[AccuracyFields[i]]) THEN 0
                     ELSE ACCURACY_WEIGHTS[AccuracyFields[i]]
        total_weight == SeqSum([i \in 1 .. Len(AccuracyFields) |-> weight(i)],
                               Len(AccuracyFields))
        weighted_sum ==
            SeqSum([i \in 1 .. Len(AccuracyFields) |->
                      OrZero(values[AccuracyFields[i]]) * weight(i)],
                   Len(AccuracyFields))
    IN  IF total_weight = 0 THEN 0
        ELSE RoundHalfEven(weighted_sum * Hundred * Tenths, total_weight * Unit)

\* Component values the aggregates are computed for.
AggGrid == {0, 5000, Unit}
OptAggGrid == {None} \cup {Some(v) : v \in AggGrid}
FragmentationGrid == {0, 1000, WORST_FRAGMENTATION_RATIO, 5000}
DuplicateGrid == {0, 500, WORST_DUPLICATE_RATIO}

AggInputs ==
    [ kind : {"structural"}, fragmentation : FragmentationGrid,
      section_order : OptAggGrid, duplicate_ratio : DuplicateGrid ]
    \cup [ kind : {"metadata"}, title : AggGrid, authors : AggGrid, doi : OptAggGrid,
           date : OptAggGrid, source : OptAggGrid, abstract : OptAggGrid,
           keywords : OptAggGrid ]
    \cup [ kind : {"composite"}, text_similarity : AggGrid, content_recall : AggGrid,
           content_precision : AggGrid, order_score : OptAggGrid ]

InitAggregates ==
    /\ pc = "start"
    /\ IdleComposite
    /\ IdleSimilarity
    /\ IdlePresence
    /\ IdleLeaderboard
    /\ IdleRouting
    /\ IdleGates
    /\ IdleStrip
    /\ IdleMain
    /\ IdleIngestion
    /\ IdleReorder
    /\ IdleLate
    /\ aggIn \in AggInputs
    /\ aggOut = << >>

ComputeStructuralQuality ==
    /\ pc = "start"
    /\ aggIn.kind = "structural"
    /\ aggOut' = compute_structural_quality(aggIn.fragmentation, aggIn.section_order,
                                            aggIn.duplicate_ratio)
    /\ pc' = "done"
    /\ UNCHANGED <<fidVars, simVars, presVars, lbVars, routeVars, gateVars, stripVars,
                   mainVars, ingestVars, before, lateVars, aggIn>>

ComputeMetadataAccuracyScore ==
    /\ pc = "start"
    /\ aggIn.kind = "metadata"
    /\ aggOut' = compute_metadata_accuracy_score(
                     [f \in {AccuracyFields[i] : i \in 1 .. Len(AccuracyFields)} |->
                        IF f \in {"title", "authors"} THEN Some(aggIn[f]) ELSE aggIn[f]])
    /\ pc' = "done"
    /\ UNCHANGED <<fidVars, simVars, presVars, lbVars, routeVars, gateVars, stripVars,
                   mainVars, ingestVars, before, lateVars, aggIn>>

ComputeCompositeAggregate ==
    /\ pc = "start"
    /\ aggIn.kind = "composite"
    /\ aggOut' = compute_fidelity_composite(aggIn.text_similarity, aggIn.content_recall,
                                            aggIn.content_precision, aggIn.order_score)
    /\ pc' = "done"
    /\ UNCHANGED <<fidVars, simVars, presVars, lbVars, routeVars, gateVars, stripVars,
                   mainVars, ingestVars, before, lateVars, aggIn>>

NextAggregates ==
    \/ ComputeStructuralQuality
    \/ ComputeMetadataAccuracyScore
    \/ ComputeCompositeAggregate

SpecAggregates == InitAggregates /\ [][NextAggregates]_vars

\* The components of the aggregate computed, each on the scale where Unit is
\* its maximum; None for an undefined one.
C13_Components ==
    IF aggIn.kind = "structural"
    THEN << Some((ratio_to_score(aggIn.fragmentation, WORST_FRAGMENTATION_RATIO) * Unit)
                   \div WORST_FRAGMENTATION_RATIO),
            aggIn.section_order,
            Some((ratio_to_score(aggIn.duplicate_ratio, WORST_DUPLICATE_RATIO) * Unit)
                   \div WORST_DUPLICATE_RATIO) >>
    ELSE IF aggIn.kind = "metadata"
    THEN << Some(aggIn.title), Some(aggIn.authors), aggIn.doi, aggIn.date, aggIn.source,
            aggIn.abstract, aggIn.keywords >>
    ELSE << Some(aggIn.text_similarity), Some(aggIn.content_recall),
            Some(aggIn.content_precision), aggIn.order_score >>

C13_DefinedAllAt(v) ==
    \A i \in 1 .. Len(C13_Components) :
        IsNone(C13_Components[i]) \/ Val(C13_Components[i]) = v

\* The maximum of the aggregate: 100.0 in tenths, or 1.0.
C13_Max == IF aggIn.kind = "composite" THEN Unit ELSE Hundred * Tenths

\* C13 as stated: in each of the three aggregates an undefined component is
\* excluded and the other weights renormalised, so an aggregate whose defined
\* components are all at their maximum is at its maximum.
C13_AsStated ==
    pc = "done" /\ C13_DefinedAllAt(Unit) => aggOut = C13_Max

\* C13: structural quality and metadata accuracy exclude an undefined
\* component and renormalise the other weights: with the defined components
\* all at their maximum (minimum) the aggregate is 100.0 (0.0). Composite
\* fidelity keeps its weights: an undefined order score counts as 0, and with
\* the three other components at 1 the composite is 1 - FIDELITY_WEIGHT_ORDER.
C13_RenormalisedExceptComposite ==
    pc = "done" =>
       /\ aggIn.kind # "composite" /\ C13_DefinedAllAt(Unit) => aggOut = C13_Max
       /\ C13_DefinedAllAt(0) => aggOut = 0
       /\ aggIn.kind = "composite" /\ C13_DefinedAllAt(Unit) =>
             aggOut = IF IsNone(aggIn.order_score) THEN Unit - FIDELITY_WEIGHT_ORDER
                      ELSE Unit

\* A structural quality computed without section order, the two other
\* components at their maximum.
C13_Witness ==
    /\ pc = "done"
    /\ aggIn.kind = "structural"
    /\ IsNone(aggIn.section_order)
    /\ C13_DefinedAllAt(Unit)
    /\ aggOut = C13_Max

-----------------------------------------------------------------------------
(* quality_scoring.py: main, one record per (document, parser config) *)

MISSING_FILE == "missing_file"

\* _FIELD_DEFAULTS. A column that holds a number or None is None or Some(n).
FIELD_DEFAULTS ==
    [ filename |-> "", parser_config |-> "", doc_type |-> "",
      title_found |-> MISSING_FILE, title_ratio |-> Some(0),
      authors_found |-> MISSING_FILE, authors_ratio |-> Some(0),
      doi_found |-> MISSING_FILE,
      abstract_found |-> MISSING_FILE, abstract_ratio |-> Some(0),
      references_found |-> MISSING_FILE,
      key_passage_found |-> MISSING_FILE, key_passage_ratio |-> Some(0),
      quality_score |-> Some(0), quality_score_max |-> Some(0),
      quality_score_pct |-> None,
      fragmentation_ratio |-> None, section_order_score |-> None,
      duplicate_content_ratio |-> None, structural_quality |-> None,
      continuity_found |-> None, continuity_total |-> None,
      continuity_avg_ratio |-> None,
      meta_title_accuracy |-> None, meta_authors_recall |-> None,
      meta_authors_avg_ratio |-> None, meta_doi_accuracy |-> None,
      meta_date_accuracy |-> None, meta_source_accuracy |-> None,
      meta_abstract_accuracy |-> None, meta_keyword_recall |-> None,
      meta_keyword_avg_ratio |-> None, meta_accuracy_score |-> None,
      fidelity_composite |-> None, text_similarity |-> None,
      content_recall |-> None, content_precision |-> None, order_score |-> None ]

empty_record(filename, config, doc_type) ==
    [FIELD_DEFAULTS EXCEPT !.filename = filename, !.parser_config = config,
                           !.doc_type = doc_type]

\* record.update(fields): the fields given replace those of the record.
Update(record, fields) ==
    [f \in DOMAIN record |-> IF f \in DOMAIN fields THEN fields[f] ELSE record[f]]

\* What _score_content_presence reads of (full_text, gt).
PresenceInput(text, gt) ==
    [ title |-> text.title, authors |-> text.authors,
      doi |-> IF ~gt.doi THEN "absent"
              ELSE IF text.doi_in_text THEN "in_text" ELSE "not_in_text",
      abstract |-> IF gt.abstract_first_sentence THEN Some(text.abstract) ELSE None,
      references |-> text.references,
      key_passage |-> text.key_passage ]

PresenceFields(p) ==
    [ title_found |-> p.title_found, title_ratio |-> Some(p.title_ratio),
      authors_found |-> p.authors_found, authors_ratio |-> Some(p.authors_ratio),
      doi_found |-> p.doi_found,
      abstract_found |-> p.abstract_found, abstract_ratio |-> Some(p.abstract_ratio),
      references_found |-> p.references_found,
      key_passage_found |-> p.key_passage_found,
      key_passage_ratio |-> Some(p.key_passage_ratio),
      quality_score |-> Some(p.quality_score),
      quality_score_max |-> Some(p.quality_score_max),
      quality_score_pct |-> p.quality_score_pct ]

\* _score_structural: score_section_order is None without sections_in_order,
\* the continuity columns are None without continuity passages.
score_structural(text, gt) ==
    LET section_order == IF gt.sections_in_order THEN text.section_order ELSE None
        has_continuity == gt.continuity_passages /\ text.continuity[2] > 0
    IN  [ fragmentation_ratio |-> Some(text.fragmentation),
          section_order_score |-> section_order,
          duplicate_content_ratio |-> Some(text.duplicate_ratio),
          structural_quality |->
              Some(compute_structural_quality(text.fragmentation, section_order,
                                              text.duplicate_ratio)),
          continuity_found |-> IF has_continuity THEN Some(text.continuity[1]) ELSE None,
          continuity_total |-> IF has_continuity THEN Some(text.continuity[2]) ELSE None,
          continuity_avg_ratio |->
              IF has_continuity THEN Some(text.continuity[3]) ELSE None ]

\* _score_metadata: each accuracy is None when the ground truth lacks the field.
score_metadata(text, gt) ==
    LET m_doi == IF gt.doi THEN Some(IF text.doi_in_text THEN Unit ELSE 0) ELSE None
        m_date == IF gt.publication_date THEN Some(text.meta_date) ELSE None
        m_source == IF gt.source THEN Some(text.meta_source) ELSE None
        m_abstract == IF gt.abstract_first_sentence THEN Some(text.meta_abstract) ELSE None
        m_kw_recall == IF gt.keywords THEN Some(text.meta_keywords[1]) ELSE None
        m_kw_avg == IF gt.keywords THEN Some(text.meta_keywords[2]) ELSE None
    IN  [ meta_title_accuracy |-> Some(text.meta_title),
          meta_authors_recall |-> Some(text.meta_authors[1]),
          meta_authors_avg_ratio |-> Some(text.meta_authors[2]),
          meta_doi_accuracy |-> m_doi,
          meta_date_accuracy |-> m_date,
          meta_source_accuracy |-> m_source,
          meta_abstract_accuracy |-> m_abstract,
          meta_keyword_recall |-> m_kw_recall,
          meta_keyword_avg_ratio |-> m_kw_avg,
          meta_accuracy_score |->
              Some(compute_metadata_accuracy_score(
                       [ title |-> Some(text.meta_title),
                         authors |-> Some(text.meta_authors[1]),
                         doi |-> m_doi, date |-> m_date, source |-> m_source,
                         abstract |-> m_abstract, keywords |-> m_kw_recall ])) ]

has_metadata_annotations(gt) == gt.publication_date \/ gt.source

\* score_reference_text, from the four measures of the text against the
\* reference.
score_reference_text(text) ==
    [ fidelity_composite |->
          Some(compute_fidelity_composite(text.text_similarity, text.content_recall,
                                          text.content_precision, text.order_score)),
      text_similarity |-> Some(text.text_similarity),
      content_recall |-> Some(text.content_recall),
      content_precision |-> Some(text.content_precision),
      order_score |-> text.order_score ]

\* The body of main's loop for a pair whose text file exists, lines 282-295:
\* the record appended, or the exception that leaves main.
score_pair(gt, config, text) ==
    LET presence == score_content_presence(PresenceInput(text, gt))
        r0 == empty_record(gt.filename, config, gt.doc_type)
        r1 == Update(r0, PresenceFields(presence))
        r2 == Update(r1, score_structural(text, gt))
        r3 == IF has_metadata_annotations(gt) THEN Update(r2, score_metadata(text, gt))
              ELSE r2
        r4 == IF gt.reference_text THEN Update(r3, score_reference_text(text)) ELSE r3
    IN  IF presence.raised # "" THEN [raised |-> presence.raised]
        ELSE [raised |-> "", record |-> r4]

\* Ground truth entries: fully annotated, bare, and with metadata annotations
\* but neither DOI nor abstract.
GtProfiles ==
    { [ doc_type |-> "article", doi |-> TRUE, abstract_first_sentence |-> TRUE,
        sections_in_order |-> TRUE, continuity_passages |-> TRUE,
        publication_date |-> TRUE, source |-> TRUE, keywords |-> TRUE,
        reference_text |-> TRUE ],
      [ doc_type |-> "report", doi |-> FALSE, abstract_first_sentence |-> FALSE,
        sections_in_order |-> FALSE, continuity_passages |-> FALSE,
        publication_date |-> FALSE, source |-> FALSE, keywords |-> FALSE,
        reference_text |-> FALSE ],
      [ doc_type |-> "report", doi |-> FALSE, abstract_first_sentence |-> FALSE,
        sections_in_order |-> TRUE, continuity_passages |-> FALSE,
        publication_date |-> TRUE, source |-> FALSE, keywords |-> FALSE,
        reference_text |-> TRUE ] }

\* Extracted texts, by what the scoring functions find in them.
ExtractedTexts ==
    { [ title |-> [exact |-> TRUE, windows |-> << >>],
        authors |-> << [exact |-> TRUE, windows |-> << >>] >>,
        doi_in_text |-> TRUE,
        abstract |-> [exact |-> TRUE, windows |-> << >>],
        references |-> TRUE,
        key_passage |-> [exact |-> FALSE, windows |-> <<7000, 6000>>],
        fragmentation |-> 0, section_order |-> Some(Unit), duplicate_ratio |-> 0,
        continuity |-> <<1, 1, 1000>>,
        meta_title |-> Unit, meta_authors |-> <<Unit, Unit>>, meta_date |-> Unit,
        meta_source |-> 9000, meta_abstract |-> Unit, meta_keywords |-> <<5000, 8000>>,
        text_similarity |-> 9000, content_recall |-> 9000, content_precision |-> 9000,
        order_score |-> Some(9000) ],
      [ title |-> [exact |-> FALSE, windows |-> <<6900>>],
        authors |-> << [exact |-> FALSE, windows |-> << >>] >>,
        doi_in_text |-> FALSE,
        abstract |-> [exact |-> FALSE, windows |-> << >>],
        references |-> FALSE,
        key_passage |-> [exact |-> FALSE, windows |-> << >>],
        fragmentation |-> 1000, section_order |-> None, duplicate_ratio |-> 500,
        continuity |-> <<0, 1, 300>>,
        meta_title |-> 6900, meta_authors |-> <<0, 0>>, meta_date |-> 0,
        meta_source |-> 0, meta_abstract |-> 0, meta_keywords |-> <<0, 0>>,
        text_similarity |-> 8000, content_recall |-> 8000, content_precision |-> 7000,
        order_score |-> None ] }

MaxMainDocs == 2
FileNames == <<"d1.pdf", "d2.pdf", "d3.pdf", "d4.pdf">>

GtDocLists ==
    UNION { { [d \in 1 .. n |-> [filename |-> FileNames[d]] @@ profile[d]] :
                profile \in [1 .. n -> GtProfiles] } :
            n \in 0 .. MaxMainDocs }

NumPairs == Len(gtDocs) * Len(parserConfigs)
\* The document and the config of the k-th pair of the loop.
PairDoc(k) == ((k - 1) \div Len(parserConfigs)) + 1
PairConfig(k) == ((k - 1) % Len(parserConfigs)) + 1

InitMain ==
    /\ pc = "start"
    /\ IdleComposite
    /\ IdleSimilarity
    /\ IdlePresence
    /\ IdleLeaderboard
    /\ IdleRouting
    /\ IdleGates
    /\ IdleStrip
    /\ IdleAggregates
    /\ IdleIngestion
    /\ IdleReorder
    /\ IdleLate
    /\ gtDocs \in GtDocLists
    /\ parserConfigs \in ConfigLists
    /\ textFiles \in [1 .. NumPairs -> {None} \cup {Some(t) : t \in ExtractedTexts}]
    /\ mainPos = 0

\* One turn of the loop of main, lines 271-300.
ScorePair ==
    /\ pc = "start"
    /\ mainPos < NumPairs
    /\ LET k == mainPos + 1
           gt == gtDocs[PairDoc(k)]
           config == parserConfigs[PairConfig(k)]
       IN  IF IsNone(textFiles[k])
           THEN /\ results' = Append(results, empty_record(gt.filename, config, gt.doc_type))
                /\ mainPos' = k
                /\ pc' = pc
           ELSE LET out == score_pair(gt, config, Val(textFiles[k]))
                IN  IF out.raised # ""
                    THEN /\ pc' = out.raised
                         /\ UNCHANGED <<results, mainPos>>
                    ELSE /\ results' = Append(results, out.record)
                         /\ mainPos' = k
                         /\ pc' = pc
    /\ UNCHANGED <<fidVars, simVars, presVars, routeVars, gateVars, stripVars, aggVars,
                   ingestVars, before, lateVars, gtDocs, parserConfigs, textFiles,
                   qualityCsv, lbGlobal, lbByType, blGlobal, blByType>>

\* main after the loop, lines 302-308.
FinishMain ==
    /\ mainPos = NumPairs
    /\ WriteScoringOutputs

NextMain == ScorePair \/ FinishMain

SpecMain == InitMain /\ [][NextMain]_vars

\* The row of the k-th pair: the defaults of a missing file, or a scored row.
C11_RowOfPair(k) ==
    LET gt == gtDocs[PairDoc(k)]
        config == parserConfigs[PairConfig(k)]
    IN  /\ results[k].filename = gt.filename
        /\ results[k].parser_config = config
        /\ IF IsNone(textFiles[k])
           THEN results[k] = empty_record(gt.filename, config, gt.doc_type)
           ELSE /\ results[k].title_found \in {FOUND, NOT_FOUND}
                /\ ~IsNone(results[k].structural_quality)

\* C11: a run of main never aborts on a pair, whether its extracted text file
\* is absent or not, and ends with exactly one row per (document, parser
\* config) pair in the order of the loop: the missing-file defaults for a pair
\* without file, a scored row for every other pair.
C11_OneRowPerPair ==
    /\ pc \in {"start", "scored"}
    /\ pc = "scored" =>
          /\ Len(results) = NumPairs
          /\ Len(Val(qualityCsv)) = NumPairs
          /\ \A k \in 1 .. NumPairs : C11_RowOfPair(k)

MetaFields ==
    { "meta_title_accuracy", "meta_authors_recall", "meta_authors_avg_ratio",
      "meta_doi_accuracy", "meta_date_accuracy", "meta_source_accuracy",
      "meta_abstract_accuracy", "meta_keyword_recall", "meta_keyword_avg_ratio",
      "meta_accuracy_score" }
SimilarityFields ==
    { "fidelity_composite", "text_similarity", "content_recall", "content_precision",
      "order_score" }

C12_RowOk(r, gt) ==
    /\ ~gt.doi => r.doi_found = NOT_APPLICABLE
    /\ ~gt.abstract_first_sentence =>
          /\ r.abstract_found = NOT_APPLICABLE
          /\ IsNone(r.abstract_ratio)
    /\ ~gt.sections_in_order => IsNone(r.section_order_score)
    /\ ~has_metadata_annotations(gt) => \A f \in MetaFields : IsNone(r[f])
    /\ ~gt.reference_text => \A f \in SimilarityFields : IsNone(r[f])

\* C12: in every row of the run, a field whose ground-truth prerequisite is
\* absent is null or 'n/a': doi_found without DOI, abstract_found and
\* abstract_ratio without abstract first sentence, section_order_score without
\* expected section order, the meta_* fields without metadata annotations, the
\* five similarity fields without reference text.
C12_AbsentPrerequisiteIsNull ==
    \A k \in 1 .. Len(results) : C12_RowOk(results[k], gtDocs[PairDoc(k)])

-----------------------------------------------------------------------------
(* eu_fact_force/ingestion: services.py, models.py, s3.py, signals.py, apps.py.
   A path is the sequence of its components under the project root; a DOI
   given to run_pipeline is such a path (fetch_file_and_metadata joins it to
   the root). A storage object is a name and the suffix Storage.save gave it
   (0: the name asked for). *)

PENDING == "pending"
STORED == "stored"
PARSED == "parsed"

\* The local files of the runs considered.
LocalPaths == {<<"README.md">>, <<"docs", "README.md">>, <<"docs">>, <<"missing.pdf">>}
LocalKind(path) ==
    IF path \in {<<"README.md">>, <<"docs", "README.md">>} THEN "file"
    ELSE IF path = <<"docs">> THEN "dir" ELSE "missing"

\* path.name
PathName(path) == path[Len(path)]
\* f"ingestion/sources/{path.name}"
S3Key(path) == <<"ingestion", "sources", PathName(path)>>

\* fetch_file_and_metadata(doi)
fetch_file_and_metadata(doi) == [filename |-> doi, tags_pubmed |-> << <<"simulated">>, doi >>]

\* Storage.save(name, content): the name the object is stored under. A backend
\* that does not overwrite picks an unused alternative of a name in use.
ObjectAt(name) == [name |-> name, suffix |-> 0]
MaxSourceFiles == 2
MaxObjects == 3
AvailableName(name) ==
    IF fileOverwrite \/ ObjectAt(name) \notin storage THEN ObjectAt(name)
    ELSE [name |-> name,
          suffix |-> CHOOSE k \in 1 .. MaxObjects :
                        /\ [name |-> name, suffix |-> k] \notin storage
                        /\ \A j \in 1 .. k - 1 : [name |-> name, suffix |-> j] \in storage]

\* Variant for comparison: without the is_file() check.
PathErrorExistsOnly(path) == IF LocalKind(path) = "missing" THEN "FileNotFoundError" ELSE ""

\* The checks of save_to_s3_and_postgres and of save_file_to_s3 on the path.
PathError(path) ==
    IF LocalKind(path) = "missing" THEN "FileNotFoundError"
    ELSE IF LocalKind(path) # "file" THEN "ValueError" ELSE ""

\* Variant for comparison: enumerate(chunks) without start=1.
save_chunks_from_zero(pk, chunks) ==
    {[source_file |-> pk, content |-> chunks[i], order |-> i - 1] : i \in 1 .. Len(chunks)}

\* save_chunks: one DocumentChunk per chunk, order counted from 1.
save_chunks(pk, chunks) ==
    {[source_file |-> pk, content |-> chunks[i], order |-> i] : i \in 1 .. Len(chunks)}

\* Variant for comparison: save_chunks writing the default status.
SaveChunksStatusPending == PENDING
\* save_chunks: source_file.status = SourceFile.Status.PARSED
SaveChunksStatus == PARSED

\* parse_file: source_file.metadata.tags_pubmed
parse_file(pk, metadata) == metadata[pk]

\* Variant for comparison: signals.py imported as well.
ImportedModulesWithSignals ==
    {"apps", "models", "s3", "services", "admin", "forms", "views", "urls", "signals"}

\* The modules of the app that are imported when Django loads it and serves
\* requests: IngestionConfig has no ready(), and no module imports .signals.
ImportedModules == {"apps", "models", "s3", "services", "admin", "forms", "views", "urls"}
\* The receivers of pre_delete for SourceFile: @receiver connects
\* delete_source_document_from_s3 when signals.py is imported.
pre_delete_receivers ==
    IF "signals" \in ImportedModules THEN {"delete_source_document_from_s3"} ELSE {}

\* What the storage backend does during one call: it answers, or exists()
\* raises, or delete() raises.
StorageFaults == {"none", "exists", "delete"}

\* Variant for comparison: without the try/except of lines 65-74.
delete_source_document_from_s3_uncaught(s3_key, fault) ==
    IF s3_key = << >> THEN [storage |-> storage, raised |-> "", warned |-> FALSE]
    ELSE IF fault = "exists" THEN [storage |-> storage, raised |-> "Exception", warned |-> FALSE]
    ELSE IF ObjectAt(s3_key) \notin storage
         THEN [storage |-> storage, raised |-> "", warned |-> FALSE]
    ELSE IF fault = "delete" THEN [storage |-> storage, raised |-> "Exception", warned |-> FALSE]
    ELSE [storage |-> storage \ {ObjectAt(s3_key)}, raised |-> "", warned |-> FALSE]

\* SourceFile.delete_source_document_from_s3: the storage it leaves, the
\* exception that leaves it, and whether it logged a warning.
delete_source_document_from_s3(s3_key, fault) ==
    IF s3_key = << >> THEN [storage |-> storage, raised |-> "", warned |-> FALSE]
    ELSE IF fault = "exists" THEN [storage |-> storage, raised |-> "", warned |-> TRUE]
    ELSE IF ObjectAt(s3_key) \notin storage
         THEN [storage |-> storage, raised |-> "", warned |-> FALSE]
    ELSE IF fault = "delete" THEN [storage |-> storage, raised |-> "", warned |-> TRUE]
    ELSE [storage |-> storage \ {ObjectAt(s3_key)}, raised |-> "", warned |-> FALSE]

Without(table, pk) == [k \in DOMAIN table \ {pk} |-> table[k]]

Dois == LocalPaths
\* doi of create_from_file: its default None, or a DOI.
OptDois == {None, Some(<<"test_doi">>)}

InitIngestion ==
    /\ pc = "start"
    /\ IdleComposite
    /\ IdleSimilarity
    /\ IdlePresence
    /\ IdleLeaderboard
    /\ IdleRouting
    /\ IdleGates
    /\ IdleStrip
    /\ IdleAggregates
    /\ IdleMain
    /\ IdleReorder
    /\ IdleLate
    /\ storage = {}
    /\ fileOverwrite \in BOOLEAN
    /\ sourceFiles = << >>
    /\ fileMetadata = << >>
    /\ documentChunks = {}
    /\ savedObject = << >>
    /\ nextPk = 1
    /\ ingestOut = [op |-> "none"]

IngestUnchanged ==
    UNCHANGED <<pc, fidVars, simVars, presVars, lbVars, routeVars, gateVars, stripVars,
                aggVars, mainVars, before, lateVars, fileOverwrite>>

\* run_pipeline(doi)
RunPipeline(doi) ==
    /\ nextPk <= MaxSourceFiles
    /\ Cardinality(storage) < MaxObjects
    /\ LET fetched == fetch_file_and_metadata(doi)
           path == fetched.filename
           s3_key == S3Key(path)
           pk == nextPk
           chunks == parse_file(pk, fileMetadata')
       IN  IF PathError(path) # ""
           THEN /\ ingestOut' = [op |-> "run_pipeline", doi |-> doi,
                                 raised |-> PathError(path)]
                /\ UNCHANGED <<storage, sourceFiles, fileMetadata, documentChunks,
                               savedObject, nextPk>>
           ELSE /\ storage' = storage \cup {AvailableName(s3_key)}
                /\ savedObject' = savedObject @@ (pk :> [object |-> AvailableName(s3_key),
                                                         created_by |-> "run_pipeline"])
                /\ fileMetadata' = fileMetadata @@ (pk :> fetched.tags_pubmed)
                /\ documentChunks' = documentChunks \cup save_chunks(pk, chunks)
                /\ sourceFiles' =
                      sourceFiles @@ (pk :> [doi |-> doi, s3_key |-> s3_key, status |-> SaveChunksStatus])
                /\ nextPk' = nextPk + 1
                /\ ingestOut' = [op |-> "run_pipeline", doi |-> doi, raised |-> "",
                                 pk |-> pk, source_file |-> sourceFiles'[pk],
                                 chunks |-> chunks]
    /\ IngestUnchanged

\* SourceFile.create_from_file(file_path, doi): the object is saved before the
\* row is created; doi = None violates the NOT NULL column.
CreateFromFile(path, doi) ==
    /\ nextPk <= MaxSourceFiles
    /\ Cardinality(storage) < MaxObjects
    /\ LET s3_key == S3Key(path)
           pk == nextPk
       IN  IF PathError(path) # ""
           THEN /\ ingestOut' = [op |-> "create_from_file", path |-> path,
                                 raised |-> PathError(path)]
                /\ UNCHANGED <<storage, sourceFiles, savedObject, nextPk>>
           ELSE /\ storage' = storage \cup {AvailableName(s3_key)}
                /\ IF IsNone(doi)
                   THEN /\ ingestOut' = [op |-> "create_from_file", path |-> path,
                                         raised |-> "IntegrityError"]
                        /\ UNCHANGED <<sourceFiles, savedObject, nextPk>>
                   ELSE /\ sourceFiles' =
                              sourceFiles @@ (pk :> [doi |-> Val(doi), s3_key |-> s3_key,
                                                     status |-> STORED])
                        /\ savedObject' =
                              savedObject @@ (pk :> [object |-> AvailableName(s3_key),
                                                     created_by |-> "create_from_file"])
                        /\ nextPk' = nextPk + 1
                        /\ ingestOut' = [op |-> "create_from_file", path |-> path,
                                         raised |-> "", pk |-> pk,
                                         source_file |-> sourceFiles'[pk]]
    /\ UNCHANGED <<fileMetadata, documentChunks>>
    /\ IngestUnchanged

\* source_file.delete(): the pre_delete receivers, then the row and the rows
\* that cascade from it.
DeleteSourceFile(pk) ==
    /\ pk \in DOMAIN sourceFiles
    /\ \E fault \in StorageFaults :
         storage' = IF "delete_source_document_from_s3" \in pre_delete_receivers
                    THEN delete_source_document_from_s3(sourceFiles[pk].s3_key, fault).storage
                    ELSE storage
    /\ sourceFiles' = Without(sourceFiles, pk)
    /\ fileMetadata' = Without(fileMetadata, pk)
    /\ documentChunks' = {c \in documentChunks : c.source_file # pk}
    /\ ingestOut' = [op |-> "delete", raised |-> "", pk |-> pk,
                     source_file |-> sourceFiles[pk]]
    /\ UNCHANGED <<savedObject, nextPk>>
    /\ IngestUnchanged

NextIngestion ==
    \/ \E doi \in Dois : RunPipeline(doi)
    \/ \E path \in LocalPaths, doi \in OptDois : CreateFromFile(path, doi)
    \/ \E pk \in 1 .. MaxSourceFiles : DeleteSourceFile(pk)

SpecIngestion == InitIngestion /\ [][NextIngestion]_vars

C16_ChunksOf(pk) == {c \in documentChunks : c.source_file = pk}

\* C16: run_pipeline(doi) on an existing local file returns, and when it has
\* returned the SourceFile it returns has this doi, status PARSED and s3_key
\* 'ingestion/sources/<file name>', is the row stored under its key, an object
\* of that name exists in storage, and its DocumentChunks taken in ascending
\* order (1, 2) have the contents 'simulated', doi.
C16_PipelineResult ==
    ingestOut.op = "run_pipeline" =>
        /\ LocalKind(ingestOut.doi) = "file" => ingestOut.raised = ""
        /\ ingestOut.raised = "" =>
              /\ ingestOut.source_file.doi = ingestOut.doi
              /\ ingestOut.source_file.status = PARSED
              /\ ingestOut.source_file.s3_key =
                    <<"ingestion", "sources", ingestOut.doi[Len(ingestOut.doi)]>>
              /\ sourceFiles[ingestOut.pk] = ingestOut.source_file
              /\ \E o \in storage : o.name = ingestOut.source_file.s3_key /\ o.suffix = 0
              /\ {c.order : c \in C16_ChunksOf(ingestOut.pk)} = 1 .. 2
              /\ \A c \in C16_ChunksOf(ingestOut.pk) :
                    c.content = IF c.order = 1 THEN <<"simulated">> ELSE ingestOut.doi
              /\ Cardinality(C16_ChunksOf(ingestOut.pk)) = 2

\* run_pipeline has returned for a DOI whose file name is already the name of
\* a stored object.
C16_Witness ==
    /\ ingestOut.op = "run_pipeline"
    /\ ingestOut.raised = ""
    /\ ingestOut.doi = <<"docs", "README.md">>
    /\ ingestOut.pk = 2
    /\ Cardinality(documentChunks) = 4

\* C17: once a SourceFile created by create_from_file has been deleted, the
\* object its creation stored is no longer in storage.
C17_DeleteRemovesObject ==
    /\ ingestOut.op = "delete"
    /\ savedObject[ingestOut.pk].created_by = "create_from_file"
    => savedObject[ingestOut.pk].object \notin storage

-----------------------------------------------------------------------------
(* fidelity/routing.py, fidelity/baseline.py: the same rows in another order *)

\* The quality CSV is written again with its rows in another order, after
\* command_routing or command_baseline has run on it; the command is then
\* run again.
ReorderQualityCsv ==
    /\ pc \in {"routed", "baselined"}
    /\ IsNone(before)
    /\ before' = Some([ran |-> pc, routing |-> routingJson, blGlobal |-> blGlobal,
                       blByType |-> blByType])
    /\ \E p \in Permutations(1 .. Len(Val(qualityCsv))) :
          /\ \E i \in DOMAIN p : p[i] # i
          /\ qualityCsv' = Some([i \in 1 .. Len(Val(qualityCsv)) |-> Val(qualityCsv)[p[i]]])
    /\ pc' = "start"
    /\ UNCHANGED <<fidVars, simVars, presVars, routeVars, gateVars, stripVars, aggVars,
                   mainVars, ingestVars, lateVars, results, lbGlobal, lbByType, blGlobal, blByType>>

NextReorder == CommandRouting \/ CommandBaseline \/ ReorderQualityCsv

SpecReorder == InitRouting /\ [][NextReorder]_vars

\* recommended and fallback of every doc type
C18_Choices(routing) ==
    [t \in DOMAIN routing |->
        [ recommended |-> routing[t].recommended.parser_config,
          fallback |-> IF IsNone(routing[t].fallback) THEN None
                       ELSE Some(Val(routing[t].fallback).parser_config) ]]

\* C18: the routing decision (recommended and fallback of each doc type) and
\* the leaderboard rows are a function of the set of scored rows: the same
\* rows in another order give the same recommended and fallback
\* configurations and the same leaderboard rows.
C18_OrderIndependent ==
    ~IsNone(before) =>
        /\ pc = "routed" /\ Val(before).ran = "routed" =>
              C18_Choices(Val(routingJson)) = C18_Choices(Val(Val(before).routing))
        /\ pc = "baselined" /\ Val(before).ran = "baselined" =>
              /\ SetOf(Val(blGlobal)) = SetOf(Val(Val(before).blGlobal))
              /\ SetOf(Val(blByType)) = SetOf(Val(Val(before).blByType))

-----------------------------------------------------------------------------
(* fidelity/taxonomy.py: _taxonomy_for_pair                                *)
(*                                                                         *)
(* The two bodies are sequences of pieces as in score_reference_text, and  *)
(* SequenceMatcher is the oracle ratio.  Of the raw extracted text the     *)
(* counters read its lines (after strip(): the number of words and of      *)
(* characters, whether it ends in '-', starts with a lower-case letter or  *)
(* with '#'), its paragraphs of 50 characters or more (a number per        *)
(* normalised paragraph), its markdown headings, and how often the title   *)
(* and each author occur in it.                                            *)
(***************************************************************************)

AMBIGUOUS_MATCH_LOWER_BOUND == 7000
EARLY_MATCH_BREAK_THRESHOLD == 9800
MIN_SENTENCE_LEN == 30
FRAGMENT_SHORT_LINE_MAX_WORDS == 3
FRAGMENT_SHORT_LINE_MAX_CHARS == 24

\* {s: i for i, s in enumerate(corpus)}: a repeated sentence keeps its last index
IndexMapGet(corpus, sentence) ==
    CHOOSE i \in 1 .. Len(corpus) :
        corpus[i] = sentence /\ \A j \in (i + 1) .. Len(corpus) : corpus[j] # sentence

\* Lines 46-58: <<best_ratio, best_idx>>, indices counted from 1 and 0
\* standing for Python's -1.
RECURSIVE SentenceScan(_, _, _, _, _)
SentenceScan(sentence, corpus, i, best_ratio, best_idx) ==
    IF i > Len(corpus) THEN <<best_ratio, best_idx>>
    ELSE IF LengthMismatch(sentence, corpus[i])
         THEN SentenceScan(sentence, corpus, i + 1, best_ratio, best_idx)
    ELSE LET r == ratio[<<sentence, corpus[i]>>]
             nb == IF r > best_ratio THEN <<r, i>> ELSE <<best_ratio, best_idx>>
         IN  IF nb[1] >= EARLY_MATCH_BREAK_THRESHOLD THEN nb
             ELSE SentenceScan(sentence, corpus, i + 1, nb[1], nb[2])

sentence_best_match(sentence, corpus) ==
    IF sentence \in SetOf(corpus) THEN <<Unit, IndexMapGet(corpus, sentence)>>
    ELSE SentenceScan(sentence, corpus, 1, 0, 0)

\* Lines 127-128: split_sentences, then the sentences of MIN_SENTENCE_LEN or more
TaxonomySentences(body) ==
    SelectSeq(split_sentences(body), LAMBDA s : PieceLen(s) >= MIN_SENTENCE_LEN)

\* Lines 134-140: the matched positions, in the order of the reference sentences
RECURSIVE TaxonomyMatched(_, _, _)
TaxonomyMatched(ref_sentences, ext_sentences, i) ==
    IF i > Len(ref_sentences) THEN << >>
    ELSE LET m == sentence_best_match(ref_sentences[i], ext_sentences)
         IN  IF m[1] >= SENTENCE_MATCH_THRESHOLD /\ m[2] >= 1
             THEN <<m[2]>> \o TaxonomyMatched(ref_sentences, ext_sentences, i + 1)
             ELSE TaxonomyMatched(ref_sentences, ext_sentences, i + 1)

\* Variant for comparison: a ratio at the threshold counts as extra content.
IsExtraAtThreshold(r) == r <= SENTENCE_MATCH_THRESHOLD
\* Line 144
IsExtra(r) == r < SENTENCE_MATCH_THRESHOLD
\* Line 146
IsAmbiguous(r) == AMBIGUOUS_MATCH_LOWER_BOUND <= r /\ r < SENTENCE_MATCH_THRESHOLD

\* Lines 149-152
OrderViolations(matched) ==
    Cardinality({i \in 2 .. Len(matched) : matched[i] < matched[i - 1]})

\* A line after strip().
Line(words, chars, hyphen, lower, hash) ==
    [words |-> words, chars |-> chars, hyphen |-> hyphen, lower |-> lower, hash |-> hash]
IsBlank(line) == line.chars = 0

\* Variant for comparison: a line of exactly 24 characters is not short.
IsShortLineStrict(s) ==
    /\ s.words <= FRAGMENT_SHORT_LINE_MAX_WORDS
    /\ s.chars < FRAGMENT_SHORT_LINE_MAX_CHARS
    /\ ~s.hash
\* Lines 71-75
IsShortLine(s) ==
    /\ s.words <= FRAGMENT_SHORT_LINE_MAX_WORDS
    /\ s.chars <= FRAGMENT_SHORT_LINE_MAX_CHARS
    /\ ~s.hash

\* Lines 64-76: what one line of lines[:-1] adds to the count
FragmentsAt(lines, i) ==
    IF IsBlank(lines[i]) THEN 0
    ELSE (IF lines[i].hyphen /\ ~IsBlank(lines[i + 1]) /\ lines[i + 1].lower THEN 1 ELSE 0)
         + (IF IsShortLine(lines[i]) THEN 1 ELSE 0)

\* The sum of f over the set S of its arguments.
RECURSIVE SumOver(_, _)
SumOver(f, S) ==
    IF S = {} THEN 0
    ELSE LET x == CHOOSE y \in S : TRUE
         IN  f[x] + SumOver(f, S \ {x})

\* Line 64: enumerate(lines[:-1])
count_fragmented_lines(lines) ==
    LET loop == 1 .. (Len(lines) - 1)
    IN  SumOver([i \in loop |-> FragmentsAt(lines, i)], loop)

\* Lines 87-90: sum(v - 1 for v in counts.values() if v > 1)
count_repeated_paragraphs(normed) ==
    LET counts == [p \in SetOf(normed) |->
                      Cardinality({i \in 1 .. Len(normed) : normed[i] = p})]
    IN  SumOver([p \in SetOf(normed) |-> counts[p] - 1],
                {p \in SetOf(normed) : counts[p] > 1})

\* e in h or h in e, for lower-cased heading texts: a heading is held as the
\* set of section names its text contains or is contained in.
HeadingMatches(expected, h) == expected \in h

\* Lines 93-104; found is the list of detected headings
count_heading_drift(found, sections_in_order) ==
    IF IsNone(sections_in_order) \/ sections_in_order = Some(<< >>) THEN 0
    ELSE IF found = << >> THEN Len(Val(sections_in_order))
    ELSE Cardinality({i \in 1 .. Len(Val(sections_in_order)) :
                         ~\E k \in 1 .. Len(found) :
                             HeadingMatches(Val(sections_in_order)[i], found[k])})

\* Variant for comparison: occurrences - 1 added without the test on line 112.
count_metadata_bleed_unguarded(title_count, author_counts) ==
    (IF ~IsNone(title_count) THEN Val(title_count) - 1 ELSE 0)
    + SumOver([i \in 1 .. Len(author_counts) |-> author_counts[i] - 1],
              1 .. Len(author_counts))

\* Lines 107-118: title_count is None for an empty title, else the number of
\* its occurrences in the body; author_counts has one number per author.
count_metadata_bleed(title_count, author_counts) ==
    (IF ~IsNone(title_count) /\ Val(title_count) > 1 THEN Val(title_count) - 1 ELSE 0)
    + SumOver([i \in 1 .. Len(author_counts) |-> author_counts[i] - 1],
              {i \in 1 .. Len(author_counts) : author_counts[i] > 1})

\* _taxonomy_for_pair: the TaxonomyCounts it returns
taxonomy_for_pair(in) ==
    LET ext_sentences == TaxonomySentences(in.extracted)
        ref_sentences == TaxonomySentences(in.reference)
        matched == TaxonomyMatched(ref_sentences, ext_sentences, 1)
        ext_ratio == [i \in 1 .. Len(ext_sentences) |->
                         sentence_best_match(ext_sentences[i], ref_sentences)[1]]
    IN  [ total_ext_sentences |-> Len(ext_sentences),
          total_ref_sentences |-> Len(ref_sentences),
          missing_content |-> Len(ref_sentences) - Len(matched),
          extra_content |->
              Cardinality({i \in 1 .. Len(ext_sentences) : IsExtra(ext_ratio[i])}),
          ambiguous_hunks |->
              Cardinality({i \in 1 .. Len(ext_sentences) :
                              IsExtra(ext_ratio[i]) /\ IsAmbiguous(ext_ratio[i])}),
          order_violation |-> OrderViolations(matched),
          fragmentation_issue |-> count_fragmented_lines(in.lines),
          repeated_content |-> count_repeated_paragraphs(in.paragraphs),
          heading_section_drift |-> count_heading_drift(in.headings, in.sections_in_order),
          metadata_bleed |-> count_metadata_bleed(in.title_count, in.author_counts) ]

MaxTaxSentences == 2
TaxSentences == {1, 4, 5}
TaxSentenceSeqs(n) == UNION {[1 .. k -> TaxSentences] : k \in 0 .. n}
TaxBodies(n) == TaxSentenceSeqs(n) \cup {<<0>> \o b : b \in TaxSentenceSeqs(1)}

\* The ratios SequenceMatcher may report for the taxonomy's sentences, each
\* within 2*min(len)/(len a + len b).  Sentence 1 never compares itself with
\* sentence 5 (21 characters longer, more than half of 40), sentence 5 does
\* compare itself with sentence 1.
TaxRatioOracles ==
    { [p \in {q \in TaxSentences \X TaxSentences : q[1] # q[2]} |->
          CASE p = <<1, 4>> -> a
            [] p = <<4, 1>> -> b
            [] p = <<1, 5>> -> 7900
            [] p = <<5, 1>> -> c
            [] p = <<4, 5>> -> d
            [] OTHER -> 7000] :
        a \in {7000, 8000, 9800}, b \in {6900, 8000}, c \in {0, 7900}, d \in {7900, 8000} }

\* What the counters read of the raw extracted text and of the ground truth.
TaxRawCases ==
    { [ lines |-> << >>, paragraphs |-> << >>, headings |-> << >>,
        sections_in_order |-> None, title_count |-> None, author_counts |-> << >> ],
      [ lines |-> << Line(2, 9, FALSE, FALSE, FALSE), Line(9, 60, TRUE, FALSE, FALSE),
                     Line(8, 50, FALSE, TRUE, FALSE), Line(1, 3, FALSE, FALSE, FALSE) >>,
        paragraphs |-> <<1, 2, 1, 1>>, headings |-> << {"methods"} >>,
        sections_in_order |-> Some(<<"methods", "results">>),
        title_count |-> Some(3), author_counts |-> <<1, 2>> ],
      [ lines |-> << Line(2, 14, FALSE, FALSE, TRUE) >>,
        paragraphs |-> <<1>>, headings |-> << >>,
        sections_in_order |-> Some(<<"methods">>),
        title_count |-> Some(0), author_counts |-> <<0>> ],
      [ lines |-> << Line(3, 24, TRUE, FALSE, FALSE), Line(1, 5, FALSE, TRUE, FALSE) >>,
        paragraphs |-> <<1, 2>>, headings |-> << {"results", "discussion"} >>,
        sections_in_order |-> Some(<< >>),
        title_count |-> Some(1), author_counts |-> << >> ] }

InitTaxonomy ==
    /\ pc = "start"
    /\ IdleComposite
    /\ IdlePresence
    /\ IdleLeaderboard
    /\ IdleRouting
    /\ IdleGates
    /\ IdleStrip
    /\ IdleAggregates
    /\ IdleMain
    /\ IdleIngestion
    /\ IdleReorder
    /\ refBody = << >>
    /\ extBody = << >>
    /\ simOut = << >>
    /\ ratio \in TaxRatioOracles
    /\ \E raw \in TaxRawCases, extracted \in TaxBodies(MaxTaxSentences),
          reference \in TaxBodies(MaxTaxSentences) :
         taxIn = [extracted |-> extracted, reference |-> reference] @@ raw
    /\ taxOut = << >>
    /\ matchIn = << >>
    /\ matchOut = << >>

TaxonomyForPair ==
    /\ pc = "start"
    /\ taxOut' = taxonomy_for_pair(taxIn)
    /\ pc' = "done"
    /\ UNCHANGED <<fidVars, simVars, presVars, lbVars, routeVars, gateVars, stripVars,
                   aggVars, mainVars, ingestVars, before, taxIn, matchIn, matchOut>>

NextTaxonomy == TaxonomyForPair

SpecTaxonomy == InitTaxonomy /\ [][NextTaxonomy]_vars

C21_Max(values) == CHOOSE v \in values : \A w \in values : w <= v

\* The best ratio of a sentence among the sentences of the other side that
\* the search compares it with (those within the length tolerance): 1.0 for
\* a copy, else the highest SequenceMatcher ratio, 0.0 when there is none.
C21_Best(sentence, corpus) ==
    IF sentence \in SetOf(corpus) THEN Unit
    ELSE C21_Max({0} \cup {ratio[<<sentence, c>>] :
                              c \in {x \in SetOf(corpus) : ~LengthMismatch(sentence, x)}})

\* The same over every sentence of the other side.
C21_BestOfAll(sentence, corpus) ==
    IF sentence \in SetOf(corpus) THEN Unit
    ELSE C21_Max({0} \cup {ratio[<<sentence, c>>] : c \in SetOf(corpus)})

C21_Ref == TaxonomySentences(taxIn.reference)
C21_Ext == TaxonomySentences(taxIn.extracted)

C22_HyphenBreaks(lines) ==
    Cardinality({i \in 1 .. (Len(lines) - 1) :
                    /\ lines[i].chars > 0 /\ lines[i].hyphen
                    /\ lines[i + 1].chars > 0 /\ lines[i + 1].lower})

C22_ShortLines(lines) ==
    Cardinality({i \in 1 .. Len(lines) :
                    /\ lines[i].chars > 0
                    /\ lines[i].words <= 3 /\ lines[i].chars <= 24
                    /\ ~lines[i].hash})

\* C22: fragmentation_issue is the number of hyphen-continuation line breaks
\* (a line ending in '-' followed by a line starting with a lower-case letter)
\* plus the number of short non-heading lines (non-blank, at most 3 words and
\* 24 characters, not starting with '#'), counted over all lines of the text.
C22_FragmentationCount ==
    pc = "done" =>
        taxOut.fragmentation_issue =
            C22_HyphenBreaks(taxIn.lines) + C22_ShortLines(taxIn.lines)

C28_Fields ==
    { "missing_content", "extra_content", "order_violation", "fragmentation_issue",
      "repeated_content", "heading_section_drift", "metadata_bleed", "ambiguous_hunks",
      "total_ref_sentences", "total_ext_sentences" }

\* C28: in every TaxonomyCounts of _taxonomy_for_pair all counts are >= 0,
\* ambiguous_hunks <= extra_content <= total_ext_sentences, missing_content <=
\* total_ref_sentences, and order_violation is at most one less than the
\* number of matched reference sentences (0 when none is matched).
C28_CountsBounded ==
    pc = "done" =>
        LET matched == taxOut.total_ref_sentences - taxOut.missing_content
        IN  /\ DOMAIN taxOut = C28_Fields
            /\ \A f \in C28_Fields : taxOut[f] >= 0
            /\ taxOut.ambiguous_hunks <= taxOut.extra_content
            /\ taxOut.extra_content <= taxOut.total_ext_sentences
            /\ taxOut.missing_content <= taxOut.total_ref_sentences
            /\ taxOut.order_violation <= (IF matched - 1 > 0 THEN matched - 1 ELSE 0)

\* Every reference sentence is matched and every adjacent pair of matched
\* positions is out of order, for a text in which the title does not occur.
C28_Witness ==
    /\ pc = "done"
    /\ taxOut.total_ref_sentences >= 2
    /\ taxOut.missing_content = 0
    /\ taxOut.order_violation = taxOut.total_ref_sentences - 1
    /\ taxIn.title_count = Some(0)
    /\ taxOut.metadata_bleed = 0

-----------------------------------------------------------------------------
(* scoring/utils.py: best_match_ratio on one needle and one candidate list *)

MaxCandidates == 3
MatchSentences == {1, 2, 4, 5}
MatchNeedles == {1, 5}

\* Ratios for the two needles, each within 2*min(len)/(len a + len b): needle
\* 1 (40 characters) is compared with sentences 2 and 4 and not with 5;
\* needle 5 (61 characters) is compared with all of them.
MatchRatioOracles ==
    { [p \in {q \in MatchSentences \X MatchSentences : q[1] # q[2]} |->
          CASE p = <<1, 2>> -> a
            [] p = <<1, 4>> -> b
            [] p = <<1, 5>> -> 7900
            [] p = <<5, 1>> -> c
            [] p = <<5, 2>> -> 8000
            [] OTHER -> 7000] :
        a \in {7900, 9500}, b \in {8000, 9500, 9800}, c \in {0, 7900} }

InitBestMatch ==
    /\ pc = "start"
    /\ IdleComposite
    /\ IdlePresence
    /\ IdleLeaderboard
    /\ IdleRouting
    /\ IdleGates
    /\ IdleStrip
    /\ IdleAggregates
    /\ IdleMain
    /\ IdleIngestion
    /\ IdleReorder
    /\ refBody = << >>
    /\ extBody = << >>
    /\ simOut = << >>
    /\ ratio \in MatchRatioOracles
    /\ taxIn = << >>
    /\ taxOut = << >>
    /\ matchIn \in [ needle : MatchNeedles,
                     haystack_sentences :
                         UNION {[1 .. k -> MatchSentences] : k \in 0 .. MaxCandidates} ]
    /\ matchOut = << >>

\* The call as compute_content_recall and compute_content_precision make it,
\* with haystack_set = set(haystack_sentences).
BestMatchRatio ==
    /\ pc = "start"
    /\ matchOut' = Some(best_match_ratio(matchIn.needle, matchIn.haystack_sentences,
                                         SetOf(matchIn.haystack_sentences)))
    /\ pc' = "done"
    /\ UNCHANGED <<fidVars, simVars, presVars, lbVars, routeVars, gateVars, stripVars,
                   aggVars, mainVars, ingestVars, before, taxIn, taxOut, matchIn>>

NextBestMatch == BestMatchRatio

SpecBestMatch == InitBestMatch /\ [][NextBestMatch]_vars

\* M: the highest ratio over the candidates whose length differs from the
\* needle's by at most half of the needle's length, 0.0 when there is none.
C23_ExhaustiveBest ==
    LET near == {c \in SetOf(matchIn.haystack_sentences) :
                    Abs(PieceLen(matchIn.needle) - PieceLen(c)) * 2 <= PieceLen(matchIn.needle)}
        values == {0} \cup {ratio[<<matchIn.needle, c>>] : c \in near}
    IN  CHOOSE v \in values : \A w \in values : w <= v

\* C23: best_match_ratio returns 1.0 when the needle is among the candidates;
\* otherwise its result r is at most M, and is M unless r >= 0.95, and r >=
\* 0.80 exactly when M >= 0.80.
C23_EarlyExitSound ==
    pc = "done" =>
        LET r == Val(matchOut)
            M == C23_ExhaustiveBest
        IN  IF matchIn.needle \in SetOf(matchIn.haystack_sentences) THEN r = Unit
            ELSE /\ r <= M
                 /\ r = M \/ r >= 9500
                 /\ r >= 8000 <=> M >= 8000

\* The scan stopped at a candidate of ratio 0.95 although a later candidate
\* has a higher one, with a candidate outside the length tolerance before it.
C23_Witness ==
    /\ pc = "done"
    /\ matchIn.needle \notin SetOf(matchIn.haystack_sentences)
    /\ Val(matchOut) = 9500
    /\ C23_ExhaustiveBest = 9800
    /\ Len(matchIn.haystack_sentences) = 3
    /\ matchIn.haystack_sentences[1] = 5

-----------------------------------------------------------------------------
(* eu_fact_force/ingestion: the steps of the pipeline and the methods of   *)
(* SourceFile called one by one                                            *)

\* The tags handed to save_to_s3_and_postgres, and the chunks to save_chunks.
TagLists == {<< >>, << <<"simulated">> >>}

\* save_to_s3_and_postgres(local_file_path, tags_pubmed, doi): the object is
\* saved before the rows are created; doi = None violates the NOT NULL column.
SaveToS3AndPostgres(path, tags_pubmed, doi) ==
    /\ nextPk <= MaxSourceFiles
    /\ Cardinality(storage) < MaxObjects
    /\ LET s3_key == S3Key(path)
           pk == nextPk
       IN  IF PathError(path) # ""
           THEN /\ ingestOut' = [op |-> "save_to_s3_and_postgres", path |-> path,
                                 raised |-> PathError(path)]
                /\ UNCHANGED <<storage, sourceFiles, fileMetadata, savedObject, nextPk>>
           ELSE /\ storage' = storage \cup {AvailableName(s3_key)}
                /\ IF IsNone(doi)
                   THEN /\ ingestOut' = [op |-> "save_to_s3_and_postgres", path |-> path,
                                         raised |-> "IntegrityError"]
                        /\ UNCHANGED <<sourceFiles, fileMetadata, savedObject, nextPk>>
                   ELSE /\ sourceFiles' =
                              sourceFiles @@ (pk :> [doi |-> Val(doi), s3_key |-> s3_key,
                                                     status |-> STORED])
                        /\ fileMetadata' = fileMetadata @@ (pk :> tags_pubmed)
                        /\ savedObject' =
                              savedObject @@ (pk :> [object |-> AvailableName(s3_key),
                                                     created_by |-> "save_to_s3_and_postgres"])
                        /\ nextPk' = nextPk + 1
                        /\ ingestOut' = [op |-> "save_to_s3_and_postgres", path |-> path,
                                         raised |-> "", pk |-> pk,
                                         source_file |-> sourceFiles'[pk]]
    /\ UNCHANGED documentChunks
    /\ IngestUnchanged

\* save_chunks(source_file, chunks) on a SourceFile of the table
SaveChunks(pk, chunks) ==
    /\ pk \in DOMAIN sourceFiles
    /\ documentChunks' = documentChunks \cup save_chunks(pk, chunks)
    /\ sourceFiles' = [sourceFiles EXCEPT ![pk].status = SaveChunksStatus]
    /\ ingestOut' = [op |-> "save_chunks", raised |-> "", pk |-> pk, chunks |-> chunks]
    /\ UNCHANGED <<storage, fileMetadata, savedObject, nextPk>>
    /\ IngestUnchanged

\* SourceFile.objects.create(doi=doi): s3_key and status take their defaults
CreateSourceFile(doi) ==
    /\ nextPk <= MaxSourceFiles
    /\ sourceFiles' = sourceFiles @@ (nextPk :> [doi |-> doi, s3_key |-> << >>,
                                                 status |-> PENDING])
    /\ nextPk' = nextPk + 1
    /\ ingestOut' = [op |-> "create", raised |-> "", pk |-> nextPk]
    /\ UNCHANGED <<storage, fileMetadata, documentChunks, savedObject>>
    /\ IngestUnchanged

\* source_file.delete_source_document_from_s3(), called on a SourceFile of
\* the table while the backend behaves as fault says
DeleteSourceDocumentFromS3(pk, fault) ==
    /\ pk \in DOMAIN sourceFiles
    /\ LET out == delete_source_document_from_s3(sourceFiles[pk].s3_key, fault)
       IN  /\ storage' = out.storage
           /\ ingestOut' = [op |-> "delete_source_document_from_s3", pk |-> pk,
                            fault |-> fault, raised |-> out.raised, warned |-> out.warned]
    /\ UNCHANGED <<sourceFiles, fileMetadata, documentChunks, savedObject, nextPk>>
    /\ IngestUnchanged

\* The operations that create and delete SourceFiles.
NextStore ==
    \/ \E doi \in Dois : RunPipeline(doi)
    \/ \E path \in LocalPaths, doi \in OptDois : CreateFromFile(path, doi)
    \/ \E path \in LocalPaths, tags \in TagLists, doi \in OptDois :
          SaveToS3AndPostgres(path, tags, doi)
    \/ \E pk \in 1 .. MaxSourceFiles : DeleteSourceFile(pk)

SpecStore == InitIngestion /\ [][NextStore]_vars

\* The methods of SourceFile called directly, on files with and without an
\* object in storage.
NextModelCalls ==
    \/ \E path \in LocalPaths, doi \in OptDois : CreateFromFile(path, doi)
    \/ \E doi \in {<<"test_doi">>} : CreateSourceFile(doi)
    \/ \E pk \in 1 .. MaxSourceFiles : DeleteSourceFile(pk)
    \/ \E pk \in 1 .. MaxSourceFiles, fault \in StorageFaults :
          DeleteSourceDocumentFromS3(pk, fault)

SpecModelCalls == InitIngestion /\ [][NextModelCalls]_vars

\* Every operation that creates a SourceFile or writes its status.
NextStatus ==
    \/ NextStore
    \/ \E doi \in {<<"test_doi">>} : CreateSourceFile(doi)
    \/ \E pk \in 1 .. MaxSourceFiles, chunks \in TagLists : SaveChunks(pk, chunks)

SpecStatus == InitIngestion /\ [][NextStatus]_vars

\* C24: a call of delete_source_document_from_s3 returns without raising
\* and leaves the SourceFile rows as they were; it leaves storage as it was,
\* without a warning, when s3_key is empty, and leaves storage as it was when
\* the object is missing or the backend raises during exists or delete.
C24_DeleteNeverRaises ==
    [][ingestOut'.op = "delete_source_document_from_s3" =>
          /\ ingestOut'.raised = ""
          /\ sourceFiles' = sourceFiles
          /\ fileMetadata' = fileMetadata
          /\ LET key == sourceFiles[ingestOut'.pk].s3_key
             IN  /\ key = << >> => storage' = storage /\ ~ingestOut'.warned
                 /\ ObjectAt(key) \notin storage => storage' = storage
                 /\ ingestOut'.fault # "none" => storage' = storage
                 /\ storage' \subseteq storage
                 /\ storage \ storage' \subseteq {ObjectAt(key)}]_vars

\* The backend raised during delete() of an object that exists, and the call
\* returned after logging a warning.
C24_Witness ==
    /\ ingestOut.op = "delete_source_document_from_s3"
    /\ ingestOut.fault = "delete"
    /\ ingestOut.warned
    /\ ingestOut.raised = ""
    /\ ObjectAt(sourceFiles[ingestOut.pk].s3_key) \in storage

StatusRank(status) == CASE status = PENDING -> 0 [] status = STORED -> 1 [] status = PARSED -> 2

\* C26: no step lowers the status of a SourceFile in the order PENDING,
\* STORED, PARSED; a SourceFile that create_from_file or
\* save_to_s3_and_postgres creates is STORED and the object saved for it is
\* in storage; and a SourceFile becomes PARSED only by save_chunks (alone or
\* within run_pipeline), with the DocumentChunks of that call in the table
\* and, within run_pipeline, with the object saved for it in storage.
C26_StatusForward ==
    [][/\ \A pk \in DOMAIN sourceFiles \cap DOMAIN sourceFiles' :
             StatusRank(sourceFiles'[pk].status) >= StatusRank(sourceFiles[pk].status)
       /\ \A pk \in DOMAIN sourceFiles' \ DOMAIN sourceFiles :
             /\ ingestOut'.op \in {"create_from_file", "save_to_s3_and_postgres"} =>
                   /\ sourceFiles'[pk].status = STORED
                   /\ savedObject'[pk].object \in storage'
             /\ ingestOut'.op = "run_pipeline" => savedObject'[pk].object \in storage'
             /\ ingestOut'.op = "create" => sourceFiles'[pk].status = PENDING
       /\ \A pk \in DOMAIN sourceFiles' :
             /\ sourceFiles'[pk].status = PARSED
             /\ pk \in DOMAIN sourceFiles => sourceFiles[pk].status # PARSED
             => /\ ingestOut'.op \in {"save_chunks", "run_pipeline"}
                /\ ingestOut'.pk = pk
                /\ save_chunks(pk, ingestOut'.chunks) \subseteq documentChunks']_vars

\* save_chunks has been called again on a SourceFile that was PARSED, while
\* another SourceFile is still STORED.
C26_Witness ==
    /\ ingestOut.op = "save_chunks"
    /\ ingestOut.chunks # << >>
    /\ Cardinality({c \in documentChunks : c.source_file = ingestOut.pk}) = 2
    /\ sourceFiles[ingestOut.pk].status = PARSED
    /\ \E pk \in DOMAIN sourceFiles : sourceFiles[pk].status = STORED

C27_Path(out) == IF out.op = "run_pipeline" THEN out.doi ELSE out.path

\* C27: a call of create_from_file (which calls save_file_to_s3), of
\* save_to_s3_and_postgres or of run_pipeline on a path that is not a
\* regular file raises FileNotFoundError when the path does not exist and
\* ValueError otherwise, and leaves storage, the SourceFiles, the
\* FileMetadata and the DocumentChunks as they were.
C27_NoWriteOnBadPath ==
    [][/\ ingestOut'.op \in {"create_from_file", "save_to_s3_and_postgres", "run_pipeline"}
       /\ LocalKind(C27_Path(ingestOut')) # "file"
       => /\ ingestOut'.raised = IF LocalKind(C27_Path(ingestOut')) = "missing"
                                 THEN "FileNotFoundError" ELSE "ValueError"
          /\ UNCHANGED <<storage, sourceFiles, fileMetadata, documentChunks>>]_vars

\* run_pipeline has failed on a missing file while a SourceFile and its
\* object exist.
C27_Witness ==
    /\ ingestOut.op = "run_pipeline"
    /\ ingestOut.raised = "FileNotFoundError"
    /\ sourceFiles # << >>
    /\ storage # {}

-----------------------------------------------------------------------------
(* scoring/similarity.py: precision of a pair and recall of the swapped    *)
(* pair                                                                    *)

\* compute_content_precision(extracted=a, reference=b) and
\* compute_content_recall(extracted=b, reference=a) for a = extBody and
\* b = refBody.
ScoreSwappedRoles ==
    /\ pc = "start"
    /\ simOut' = [ content_precision |-> compute_content_precision(extBody, refBody),
                   swapped_recall |-> compute_content_recall(refBody, extBody) ]
    /\ pc' = "done"
    /\ UNCHANGED <<restVars, fidVars, presVars, lbVars, routeVars, gateVars, stripVars,
                   refBody, extBody, ratio>>

NextSwappedRoles == ScoreSwappedRoles

SpecSwappedRoles == InitSimilarity /\ [][NextSwappedRoles]_vars

\* C29 (as stated): precision of (a, b) equals recall of (b, a) for every
\* pair of texts, also when one of them yields no sentence.
C29_AsStated ==
    pc = "done" => simOut.content_precision = simOut.swapped_recall

\* C29 (amended): precision of (a, b) equals recall of (b, a) whenever a
\* yields at least one sentence (both are 0.0 when b yields none); when a
\* yields no sentence precision is 0.0 and the swapped recall is 1.0.
C29_SwappedRoles ==
    pc = "done" =>
        /\ ExtSentences # << >> => simOut.content_precision = simOut.swapped_recall
        /\ ExtSentences # << >> /\ RefSentences = << >> => simOut.content_precision = 0
        /\ ExtSentences = << >> =>
              simOut.content_precision = 0 /\ simOut.swapped_recall = Unit

\* Texts with different numbers of sentences were scored, and some but not
\* all of the weight of a's sentences was matched.
C29_Witness ==
    /\ pc = "done"
    /\ Len(ExtSentences) # Len(RefSentences)
    /\ RefSentences # << >>
    /\ simOut.content_precision > 0
    /\ simOut.content_precision < Unit
    /\ simOut.content_precision = simOut.swapped_recall

-----------------------------------------------------------------------------
(* quality_scoring.py, fidelity/baseline.py: the global leaderboard of the *)
(* scoring run and the one command_baseline builds from the CSV it wrote   *)

\* Quality CSVs edited by hand: a composite that is not the one its
\* components give, and a composite next to an empty similarity.
EditedCsvs ==
    { << CsvOf("A", "article", NumCell(5000), NumCell(9000), NumCell(8000), NumCell(8000),
               EmptyCell),
         CsvOf("B", "article", NumCell(6000), EmptyCell, NumCell(8000), NumCell(8000),
               NumCell(Unit)),
         CsvOf("B", "report", EmptyCell, NumCell(7000), NumCell(7000), NumCell(7000),
               EmptyCell) >> }

InitBoards ==
    /\ pc = "start"
    /\ IdleRest
    /\ IdleComposite
    /\ IdleSimilarity
    /\ IdlePresence
    /\ IdleRouting
    /\ IdleGates
    /\ IdleStrip
    /\ results \in RoundingResultLists
    /\ qualityCsv \in {None} \cup {Some(csv) : csv \in OlderCsvs \cup EditedCsvs}
    /\ lbGlobal = None
    /\ lbByType = None
    /\ blGlobal = None
    /\ blByType = None

SpecBoards == InitBoards /\ [][NextLeaderboard]_vars

\* The rows of a leaderboard file, none when the file was not written.
C30_Rows(board) == IF IsNone(board) THEN << >> ELSE Val(board)

C30_Configs(rows) == {rows[i].parser_config : i \in 1 .. Len(rows)}

C30_SameValues(x, y) ==
    /\ x.num_documents = y.num_documents
    /\ x.fidelity_composite_avg = y.fidelity_composite_avg
    /\ x.text_similarity_avg = y.text_similarity_avg
    /\ x.content_recall_avg = y.content_recall_avg
    /\ x.content_precision_avg = y.content_precision_avg
    /\ x.order_score_avg = y.order_score_avg

\* C30: once command_baseline has run over the quality CSV the scoring run
\* wrote for its records, its global leaderboard and the one
\* _write_leaderboards wrote hold the same parser configurations, one row
\* each, and the rows of one configuration agree on num_documents and on the
\* five means; and ensure_fidelity_composite leaves every row of the CSV on
\* disk whose composite is defined as it is.
C30_SameGlobalBoard ==
    /\ pc = "baselined" /\ qualityCsv = Some(Map(CsvRow, results)) =>
          LET lb == C30_Rows(lbGlobal)
              bl == C30_Rows(blGlobal)
          IN  /\ C30_Configs(lb) = C30_Configs(bl)
              /\ Len(lb) = Cardinality(C30_Configs(lb))
              /\ Len(bl) = Cardinality(C30_Configs(bl))
              /\ \A i \in 1 .. Len(lb), j \in 1 .. Len(bl) :
                    lb[i].parser_config = bl[j].parser_config =>
                        C30_SameValues(lb[i], bl[j])
    /\ ~IsNone(qualityCsv) =>
          \A i \in 1 .. Len(Val(qualityCsv)) :
              ~IsNone(to_float(Val(qualityCsv)[i].fidelity_composite)) =>
                  ensure_fidelity_composite(Val(qualityCsv))[i] = Val(qualityCsv)[i]

\* Both writers have run on the records of two documents and two
\* configurations; one configuration has a record without scores, so its row
\* counts one document, and the other has no order score in one record.
C30_Witness ==
    /\ pc = "baselined"
    /\ qualityCsv = Some(Map(CsvRow, results))
    /\ Len(results) = 4
    /\ Len(C30_Rows(lbGlobal)) = 2
    /\ Len(C30_Rows(blGlobal)) = 2
    /\ \E i \in 1 .. 2 : Val(blGlobal)[i].num_documents = 1
    /\ \E i \in 1 .. 2 : /\ Val(blGlobal)[i].num_documents = 2
                         /\ Val(blGlobal)[i].text_similarity_avg = Some(8500)
                         /\ Val(blGlobal)[i].order_score_avg = Some(9000)

====
